---- MODULE Spec2Model ----
(***************************************************************************)
(* The PLR v23.0 "Internal Flip" candidate predictor and the scripts that  *)
(* drive it.                                                               *)
(*                                                                         *)
(* Floats are modelled in fixed point with four decimals (2.7126 is the    *)
(* integer 27126), which is the precision of every table of the corpus,    *)
(* together with the three non-finite IEEE values the code can produce.    *)
(* Python's None is the empty sequence and a value x is <<x>>.             *)
(***************************************************************************)
EXTENDS Integers, Sequences, FiniteSets, TLC

VARIABLES
    locals,         \* the locals of a predictor call in progress
    target_N,       \* the key under attack (RSA breakers)
    primes,         \* the list of primes a script has generated or loaded
    current_window, \* width of the generator's search window
    prime_file,     \* the prime (or RNG) file on disk: [exists, lines]
    counts,         \* the counters and results a script keeps
    file,           \* the table file on disk: [exists, entries]
    script,         \* which harness or script is running
    pc,             \* its position
    p_n,            \* the current prime (or number) handed to the predictor
    candidates,     \* the candidate pool handed to the predictor
    messiness_map,  \* the residue table in force: [none, map]
    modulus,        \* the modulus of the residue lookup
    i,              \* loop index of the validation loops
    failures,       \* failure counter of the validation loops
    res             \* latest result of each predictor: None or <<record>>

vars == <<locals, target_N, primes, current_window, prime_file, counts, file, script, pc, p_n, candidates, messiness_map, modulus, i, failures, res>>

----------------------------------------------------------------------------
(* Bounds of the model *)

MaxPool == 3        \* longest candidate pool of the unit harness
MaxCand == 8        \* candidates of the unit harness are drawn from 1..MaxCand
PnMin == 3          \* p_n of the unit harness is drawn from PnMin..PnMax
PnMax == 4
MaxWindow == 4      \* longest prime window of the unit harness
MaxN == 1000        \* RSA targets are drawn from 0..MaxN
MaxSmallN == 60     \* the small targets of the attacks on large keys
MaxWheelN == 200    \* the wheel benchmark's test numbers are drawn from 0..MaxWheelN
MaxUnit == 6        \* the drift analysis runs with LIMIT = 50, 100, ..., 50 * MaxUnit
SIEVE_MARGIN == 20  \* the drift analysis sieves this far past LIMIT (1000 in the script)
MaxEntries == 2     \* most key/value entries of a table file
MaxPrimeIdx == 3    \* prime windows start at all_primes[1..MaxPrimeIdx]
sieve_limit == 400  \* bound of the sieve (16,000,000 in the source)
LIMIT == 20         \* primes tested by run_new_constant_test (1,000,000)
TEST_LIMIT == 12    \* primes tested by run_scaling_test (1,000,000)
TEST_LIMIT_v26 == 25 \* primes tested by run_v26_test (50,000,000)
MaxInput == 300     \* the next-prime predictors are given the integers 0..MaxInput
MaxRoot == 640      \* is_prime's trial divisor i stays below MaxRoot
MaxSniperLimit == 60 \* LIMIT of run_sniper_test is drawn from 2..MaxSniperLimit
MaxTarget == 8      \* TARGET_TWINS of run_sniper_test is drawn from 1..MaxTarget
PRIMES_TO_TEST == 20 \* gaps analysed by PLR_TPC and PLR_TPC_Triplets (50,000,000)
NUMBERS_TO_TEST == 20 \* numbers tested by PLR_RNG_Validation (1,000,000)

----------------------------------------------------------------------------
(* Python values *)

None == <<>>
Some(x) == <<x>>

Fin(n) == [k |-> "fin", v |-> n]
FInf == [k |-> "inf", v |-> 0]
FNegInf == [k |-> "ninf", v |-> 0]
FNaN == [k |-> "nan", v |-> 0]

\* a < b on floats
FLt(a, b) ==
    IF a.k = "nan" \/ b.k = "nan" THEN FALSE
    ELSE IF a.k = "fin" /\ b.k = "fin" THEN a.v < b.v
    ELSE IF a.k = "ninf" THEN b.k # "ninf"
    ELSE IF a.k = "inf" THEN FALSE
    ELSE b.k = "inf"

\* a > b on floats
FGt(a, b) == FLt(b, a)

\* a == b on floats
FEq(a, b) == a.k # "nan" /\ b.k # "nan" /\ a = b

\* m + 1.0
FAddOne(m) == IF m.k = "fin" THEN Fin(m.v + 10000) ELSE m

\* a * g for a float a and an int g
FMulInt(a, g) ==
    IF a.k = "fin" THEN Fin(a.v * g)
    ELSE IF a.k = "nan" \/ g = 0 THEN FNaN
    ELSE IF (a.k = "inf") = (g > 0) THEN FInf
    ELSE FNegInf

\* an int gap as a float (gaps are only compared with gaps)
GapF(g) == Fin(g)

\* dict.get(key, default)
DictGet(d, key, default) == IF key \in DOMAIN d THEN d[key] ELSE default

\* the empty dict
EmptyDict == [r \in {} |-> FInf]

----------------------------------------------------------------------------
(* Configuration constants of the scripts *)

MESSY_THRESHOLD == Fin(200000)

DEFAULT_HIGH == Fin(1000000)

MESSINESS_SCORES == (0 :> Fin(27126)) @@ (2 :> Fin(262627)) @@ (4 :> Fin(262859))

MESSINESS_SCORES_NEW == (0 :> Fin(14488)) @@ (2 :> Fin(215957)) @@ (4 :> Fin(215957))

----------------------------------------------------------------------------
(* Stable sorts: list.sort(key=...) keeps equal keys in their order *)

\* InsertByScore with x put in front of the elements of equal score
InsertByScoreFront(s, x) ==
    LET later == {j \in 1..Len(s) : ~FLt(s[j].score, x.score)}
        at == IF later = {} THEN Len(s) + 1
              ELSE CHOOSE j \in later : \A l \in later : j <= l
    IN SubSeq(s, 1, at - 1) \o <<x>> \o SubSeq(s, at, Len(s))

\* x inserted into the sorted list s behind every element whose score is not greater
InsertByScore(s, x) ==
    LET later == {j \in 1..Len(s) : FLt(x.score, s[j].score)}
        at == IF later = {} THEN Len(s) + 1
              ELSE CHOOSE j \in later : \A l \in later : j <= l
    IN SubSeq(s, 1, at - 1) \o <<x>> \o SubSeq(s, at, Len(s))

RECURSIVE SortByScore(_)
SortByScore(s) ==
    IF s = <<>> THEN <<>>
    ELSE InsertByScore(SortByScore(SubSeq(s, 1, Len(s) - 1)), s[Len(s)])

\* InsertByGap for a sort in descending order of gap
InsertByGapDescending(s, x) ==
    LET later == {j \in 1..Len(s) : x.gap > s[j].gap}
        at == IF later = {} THEN Len(s) + 1
              ELSE CHOOSE j \in later : \A l \in later : j <= l
    IN SubSeq(s, 1, at - 1) \o <<x>> \o SubSeq(s, at, Len(s))

\* x inserted into the sorted list s behind every element whose gap is not greater
InsertByGap(s, x) ==
    LET later == {j \in 1..Len(s) : x.gap < s[j].gap}
        at == IF later = {} THEN Len(s) + 1
              ELSE CHOOSE j \in later : \A l \in later : j <= l
    IN SubSeq(s, 1, at - 1) \o <<x>> \o SubSeq(s, at, Len(s))

RECURSIVE SortByGap(_)
SortByGap(s) ==
    IF s = <<>> THEN <<>>
    ELSE InsertByGap(SortByGap(SubSeq(s, 1, Len(s) - 1)), s[Len(s)])

----------------------------------------------------------------------------
(* The logic gate shared by every sort-based copy of the predictor *)

\* IsMessy with >= in place of >
IsMessyAtThreshold(messiness) == ~FLt(messiness, MESSY_THRESHOLD)

\* messiness > MESSY_THRESHOLD: the candidate goes to the messy bin
IsMessy(messiness) == FGt(messiness, MESSY_THRESHOLD)

\* FlipCondition with the comparison turned round
FlipConditionReversed(g_messy_low, v11_winner_gap) == g_messy_low > v11_winner_gap

\* the flip condition: the closest messy gap is lower than the winner's gap
FlipCondition(g_messy_low, v11_winner_gap) == g_messy_low < v11_winner_gap

\* the messy bin: the messy entries of candidates_data, in pool order
RECURSIVE MessyBin(_)
MessyBin(candidates_data) ==
    IF candidates_data = <<>> THEN <<>>
    ELSE LET rest == MessyBin(SubSeq(candidates_data, 1, Len(candidates_data) - 1))
             data == candidates_data[Len(candidates_data)]
         IN IF IsMessy(data.messiness) THEN Append(rest, data) ELSE rest

\* the result of a call: the value returned, and the decision path taken
Result(prediction, v11_winner, messy_low, flipped) ==
    [prediction |-> prediction, v11_winner |-> v11_winner, messy_low |-> messy_low,
     flipped |-> flipped]

\* "if not candidates_data: return None", the two sorts and the flip
LogicGate(candidates_data, messy_bin) ==
    IF candidates_data = <<>> THEN Result(None, None, None, FALSE)
    ELSE LET sorted == SortByScore(candidates_data)
             v11_winner == sorted[1]
             messy_best == SortByGap(messy_bin)[1]
             flip == messy_bin # <<>> /\ FlipCondition(messy_best.gap, v11_winner.gap)
         IN Result(IF flip THEN Some(messy_best.prime) ELSE Some(v11_winner.prime),
                   Some(v11_winner.prime),
                   IF messy_bin # <<>> THEN Some(messy_best.prime) ELSE None,
                   flip)

\* Gap with the operands swapped
GapSwapped(pn, q) == pn - q

\* gap = q - p_n
Gap(pn, q) == q - pn

\* one entry of candidates_data
Data(q, gap, score, messiness) ==
    [prime |-> q, gap |-> gap, score |-> score, messiness |-> messiness]

----------------------------------------------------------------------------
(* Tests/PLR_Mod_Scaling_Test.py: the universal predictor *)

\* get_messiness_score with an unknown residue read as 0.0
get_messiness_score_default_zero(anchor, map, mod) == DictGet(map, anchor % mod, Fin(0))

get_messiness_score(anchor, map, mod) == DictGet(map, anchor % mod, DEFAULT_HIGH)

v23_data(pn, q, map, mod) ==
    LET gap == Gap(pn, q)
        anchor == pn + q
        messiness == get_messiness_score(anchor, map, mod)
    IN Data(q, gap, FMulInt(FAddOne(messiness), gap), messiness)

get_v23_prediction(pn, cands, map, mod) ==
    LET candidates_data == [j \in 1..Len(cands) |-> v23_data(pn, cands[j], map, mod)]
    IN LogicGate(candidates_data, MessyBin(candidates_data))

----------------------------------------------------------------------------
(* Analytic/Tests/PLR_New_Constant_Validation.py: hardcoded table, default 100.0 *)

nc_get_messiness_score(anchor, scores) == DictGet(scores, anchor % 6, DEFAULT_HIGH)

nc_get_messiness_score_v11_weighted(anchor, gap, scores) ==
    FMulInt(FAddOne(nc_get_messiness_score(anchor, scores)), gap)

nc_get_v23_internal_flip_prediction(pn, cands, scores) ==
    LET candidates_data ==
            [j \in 1..Len(cands) |->
                LET q == cands[j]
                    gap == Gap(pn, q)
                    anchor == pn + q
                IN Data(q, gap, nc_get_messiness_score_v11_weighted(anchor, gap, scores),
                        nc_get_messiness_score(anchor, scores))]
    IN LogicGate(candidates_data, MessyBin(candidates_data))

----------------------------------------------------------------------------
(* Tests/PLR_TPC.py: the table is the module-level MESSINESS_MAP_V_MOD6, which *)
(* is None until load_engine_data has run; an unknown residue scores infinity  *)

get_vmod6_score(anchor_sn, M) ==
    IF M.none THEN FInf ELSE DictGet(M.map, anchor_sn % 6, FInf)

get_messiness_score_v11_weighted(anchor_sn, gap_g_n, M) ==
    IF M.none THEN FInf
    ELSE LET score_mod6 == DictGet(M.map, anchor_sn % 6, FInf)
         IN IF FEq(score_mod6, FInf) THEN FInf
            ELSE FMulInt(FAddOne(score_mod6), gap_g_n)

get_v23_internal_flip_prediction(pn, cands, M) ==
    LET candidates_data ==
            [j \in 1..Len(cands) |->
                LET q_i == cands[j]
                    S_cand == pn + q_i
                    gap_g_i == Gap(pn, q_i)
                IN Data(q_i, gap_g_i, get_messiness_score_v11_weighted(S_cand, gap_g_i, M),
                        get_vmod6_score(S_cand, M))]
    IN LogicGate(candidates_data, MessyBin(candidates_data))

----------------------------------------------------------------------------
(* alternate/test/PLR_RSA_Breaker.py: the streaming single-pass predictor *)

\* StreamInit with the best score starting at 0 instead of infinity
StreamInitZero ==
    [best_v11_score |-> Fin(0), v11_winner |-> None, v11_gap |-> FInf,
     messy_lowest_gap |-> FInf, messy_lowest_prime |-> None]

\* the locals before the loop
StreamInit ==
    [best_v11_score |-> FInf, v11_winner |-> None, v11_gap |-> FInf,
     messy_lowest_gap |-> FInf, messy_lowest_prime |-> None]

\* BeatsBest with <= in place of <
BeatsBestOrEqual(score, best_v11_score) == ~FLt(best_v11_score, score)

\* "if score < best_v11_score"
BeatsBest(score, best_v11_score) == FLt(score, best_v11_score)

\* "if messiness > 20.0: if gap < messy_lowest_gap"
BeatsMessy(messiness, gap, messy_lowest_gap) ==
    FGt(messiness, Fin(200000)) /\ FLt(GapF(gap), messy_lowest_gap)

\* one pass of the loop body over candidate q
StreamStep(st, pn, q, scores) ==
    LET gap == Gap(pn, q)
        anchor == pn + q
        messiness == DictGet(scores, anchor % 6, DEFAULT_HIGH)
        score == FMulInt(FAddOne(messiness), gap)
        st1 == IF BeatsBest(score, st.best_v11_score)
               THEN [st EXCEPT !.best_v11_score = score, !.v11_winner = Some(q),
                               !.v11_gap = GapF(gap)]
               ELSE st
    IN IF BeatsMessy(messiness, gap, st1.messy_lowest_gap)
       THEN [st1 EXCEPT !.messy_lowest_gap = GapF(gap), !.messy_lowest_prime = Some(q)]
       ELSE st1

\* the locals after the loop over pool[1..n]
RECURSIVE StreamLoop(_, _, _, _)
StreamLoop(pn, pool, n, scores) ==
    IF n = 0 THEN StreamInit
    ELSE StreamStep(StreamLoop(pn, pool, n - 1, scores), pn, pool[n], scores)

\* the logic gate after the loop, on the locals st
StreamGate(st) ==
    LET flip == st.messy_lowest_prime # None /\ FLt(st.messy_lowest_gap, st.v11_gap)
    IN Result(IF flip THEN st.messy_lowest_prime ELSE st.v11_winner, st.v11_winner,
              st.messy_lowest_prime, flip)

get_plr_prediction(pn, candidate_pool, scores) ==
    StreamGate(StreamLoop(pn, candidate_pool, Len(candidate_pool), scores))

----------------------------------------------------------------------------
(* The prime list: the sieve of run_new_constant_test *)

\* int(n ** 0.5)
ISqrt(n) == CHOOSE r \in 0..n : r * r <= n /\ (r + 1) * (r + 1) > n

\* SieveFrom with the inner loop starting one multiple late, at k*k + k
RECURSIVE SieveFromLate(_, _, _)
SieveFromLate(sieve, k, limit) ==
    IF k > ISqrt(limit) THEN sieve
    ELSE SieveFromLate(IF sieve[k]
                       THEN [j \in DOMAIN sieve |->
                                IF j > k * k /\ (j - k * k) % k = 0 THEN FALSE ELSE sieve[j]]
                       ELSE sieve,
                       k + 1, limit)

\* the outer sieve loop from index k on: every multiple j >= k*k of a k still marked
RECURSIVE SieveFrom(_, _, _)
SieveFrom(sieve, k, limit) ==
    IF k > ISqrt(limit) THEN sieve
    ELSE SieveFrom(IF sieve[k]
                   THEN [j \in DOMAIN sieve |->
                            IF j >= k * k /\ (j - k * k) % k = 0 THEN FALSE ELSE sieve[j]]
                   ELSE sieve,
                   k + 1, limit)

Sieve(limit) == SieveFrom([j \in 0..(limit - 1) |-> j >= 2], 2, limit)

\* get_primes_and_set(limit) of PLR_Goldbach_Probe, and the same lines in
\* run_sniper_test: a sieve of limit + 1 entries, the list of its primes and
\* set(primes)
get_primes_and_set(limit) ==
    LET sieve == SieveFrom([j \in 0..limit |-> j >= 2], 2, limit)
        marked == {j \in DOMAIN sieve : sieve[j]}
        found == [n \in 1..Cardinality(marked) |->
                     CHOOSE x \in marked : Cardinality({y \in marked : y < x}) = n - 1]
    IN [sieve |-> sieve, primes |-> found, prime_set |-> {found[n] : n \in DOMAIN found}]

\* [j for j, is_p in enumerate(sieve) if is_p]: the marked indices, increasing
Enumerate(sieve) ==
    LET marked == {j \in DOMAIN sieve : sieve[j]}
    IN [n \in 1..Cardinality(marked) |->
           CHOOSE x \in marked : Cardinality({y \in marked : y < x}) = n - 1]

all_primes == Enumerate(Sieve(sieve_limit))

\* Python's list[a:b] with 0-based a, b (clamped to the list)
Slice(list, a, b) ==
    SubSeq(list, a + 1, IF b < Len(list) THEN b ELSE Len(list))

\* min(a, b)
Min2(a, b) == IF a < b THEN a ELSE b

----------------------------------------------------------------------------
(* Inputs *)

\* pools of arbitrary numbers: below, equal to and above p_n, repeats included
UnitPools == UNION {[1..n -> 1..MaxCand] : n \in 0..MaxPool}

\* a prime and the primes that follow it
PrimeWindows ==
    {<<all_primes[j], SubSeq(all_primes, j + 1, j + w)>> :
        j \in 1..MaxPrimeIdx, w \in 0..MaxWindow}

UnitInputs == ((PnMin..PnMax) \X UnitPools) \cup PrimeWindows

\* residue tables modulo 6: the two hardcoded ones, a table of clean rates
\* with one exactly at the threshold, a mixed one, partial ones, one whose
\* rates make the scores of two gaps equal, one over every residue, and the
\* empty one
UnitMaps ==
    { MESSINESS_SCORES,
      MESSINESS_SCORES_NEW,
      (0 :> Fin(0)) @@ (2 :> Fin(10000)) @@ (4 :> Fin(200000)),
      (0 :> Fin(210000)) @@ (2 :> Fin(30000)) @@ (4 :> Fin(10000)),
      (0 :> Fin(14488)),
      (2 :> Fin(250000)),
      (1 :> Fin(210000)) @@ (2 :> Fin(100000)),
      [r \in 0..5 |-> Fin(r * 50000)],
      EmptyDict }

\* tables of the shape {0: clean, 2: messy, 4: messy}
CleanRates == {Fin(0), Fin(14488), Fin(27126), Fin(199999)}
MessyRates == {Fin(200001), Fin(215957), Fin(262627), Fin(262859)}
CleanMessyMaps ==
    {(0 :> c) @@ (2 :> m2) @@ (4 :> m4) : c \in CleanRates, m2 \in MessyRates, m4 \in MessyRates}

\* loaded tables of run_scaling_test: any rates on a few anchor residues
ScalingKeys == {0, 12, 18, 20}
ScalingRates == {Fin(0), Fin(190000), Fin(215957), FInf}
ScalingMaps ==
    {(r1 :> v1) @@ (r2 :> v2) :
        r1 \in ScalingKeys, r2 \in ScalingKeys, v1 \in ScalingRates, v2 \in ScalingRates}

NoResults == [v23 |-> None, flip |-> None, plr |-> None, nc |-> None]

----------------------------------------------------------------------------
(* The table file and its loaders.                                         *)
(*                                                                         *)
(* A file is a JSON object written as a sequence of entries <<key, value>>.*)
(* A key is a quoted string, of decimal digits (its value is v) or not.    *)
(* A value is a token: bare (unquoted) or quoted, with its text; the text  *)
(* "num" stands for a decimal literal whose value is v.                    *)

KeyTok(digits, v) == [digits |-> digits, v |-> v]
Tok(t, text, v) == [t |-> t, text |-> text, v |-> v]

\* Python values that json.loads can put in the dict besides floats
PyNone == [k |-> "None", v |-> 0]
PyStr(text, v) ==
    CASE text = "num" -> [k |-> "str:num", v |-> v]
      [] text = "null" -> [k |-> "str:null", v |-> 0]
      [] text = "Infinity" -> [k |-> "str:Infinity", v |-> 0]
      [] OTHER -> [k |-> "str:other", v |-> 0]
IsStr(x) == x.k \in {"str:num", "str:null", "str:Infinity", "str:other"}

\* content.replace("Infinity", "null"): a substitution on the text, which
\* does not know whether the text stands inside quotes
replace_Infinity(entries) ==
    [j \in DOMAIN entries |->
        <<entries[j][1],
          IF entries[j][2].text = "Infinity"
          THEN [entries[j][2] EXCEPT !.text = "null"]
          ELSE entries[j][2]>>]

\* json.loads raises on a bare token that is no literal of Python's JSON
json_decodes(entries) ==
    \A j \in DOMAIN entries :
        entries[j][2].t = "bare" => entries[j][2].text \in {"num", "null", "Infinity"}

\* json.loads of one value token
json_loads_value(tok) ==
    IF tok.t = "quoted" THEN PyStr(tok.text, tok.v)
    ELSE CASE tok.text = "num" -> Fin(tok.v)
           [] tok.text = "null" -> PyNone
           [] OTHER -> FInf

\* json.loads of the object: a repeated key keeps its last value
json_loads(entries) ==
    LET kept == {j \in DOMAIN entries :
                    \A h \in DOMAIN entries : h > j => entries[h][1] # entries[j][1]}
        pos(n) == CHOOSE j \in kept : Cardinality({h \in kept : h < j}) = n - 1
    IN [n \in 1..Cardinality(kept) |->
            <<entries[pos(n)][1], json_loads_value(entries[pos(n)][2])>>]

\* "math.inf if v is None else v"
inf_if_None(v) == IF v = PyNone THEN FInf ELSE v

\* float(v): the identity on a float, a parse on a string (which may raise)
float_raises(x) == x.k \in {"None", "str:null", "str:other"}
float_of(x) ==
    CASE x.k = "str:num" -> Fin(x.v)
      [] x.k = "str:Infinity" -> FInf
      [] OTHER -> x

\* the "for k, v in data.items()" loop after its first n items
RECURSIVE final_map(_, _, _)
final_map(data, n, with_float) ==
    IF n = 0 THEN EmptyDict
    ELSE LET v == inf_if_None(data[n][2])
         IN (data[n][1].v :> (IF with_float THEN float_of(v) ELSE v))
                @@ final_map(data, n - 1, with_float)

Loaded(map) == [none |-> FALSE, map |-> map]
NotLoaded == [none |-> TRUE, map |-> EmptyDict]

\* PLR_Mod_Scaling_Test.load_messiness_map: the map, or None
load_messiness_map(f) ==
    IF ~f.exists THEN NotLoaded
    ELSE LET content == replace_Infinity(f.entries)
         IN IF ~json_decodes(content) THEN NotLoaded
            ELSE LET data == json_loads(content)
                 IN IF \E j \in DOMAIN data :
                           \/ float_raises(inf_if_None(data[j][2]))
                           \/ ~data[j][1].digits
                    THEN NotLoaded
                    ELSE Loaded(final_map(data, Len(data), TRUE))

\* PLR_Cryptographic_Efficiency_Benchmark.load_engine_data: the global
\* MESSINESS_MAP_V_MOD6 after the call (still None when it returns False)
load_engine_data(f) ==
    IF ~f.exists THEN NotLoaded
    ELSE LET content == replace_Infinity(f.entries)
         IN IF ~json_decodes(content) THEN NotLoaded
            ELSE LET data == json_loads(content)
                 IN IF \E j \in DOMAIN data : ~data[j][1].digits
                    THEN NotLoaded
                    ELSE Loaded(final_map(data, Len(data), FALSE))

\* "(score_mod6 + 1.0)" on a string raises TypeError: some candidate's residue
\* is a key of the map whose value is a string
raises_TypeError(pn, cands, map) ==
    \E j \in 1..Len(cands) :
        LET r == (pn + cands[j]) % 6
        IN r \in DOMAIN map /\ IsStr(map[r])

KeyTokens == {KeyTok(TRUE, 0), KeyTok(TRUE, 2), KeyTok(FALSE, 0)}
ValueTokens ==
    {Tok("bare", "num", 14500), Tok("bare", "Infinity", 0), Tok("bare", "null", 0),
     Tok("bare", "abc", 0), Tok("quoted", "Infinity", 0), Tok("quoted", "num", 14500),
     Tok("quoted", "abc", 0)}
NoFile == [exists |-> FALSE, entries |-> <<>>]
Files ==
    {NoFile} \cup
    {[exists |-> TRUE, entries |-> e] :
        e \in UNION {[1..n -> KeyTokens \X ValueTokens] : n \in 0..MaxEntries}}

\* the variables of the scripts that are not running
NoPrimeFile == [exists |-> FALSE, lines |-> <<>>, bad |-> 0]
NoCounts == [checks |-> 0]
NoOtherState ==
    /\ locals = <<>>
    /\ target_N = 0
    /\ primes = <<>>
    /\ current_window = 0
    /\ prime_file = NoPrimeFile
    /\ counts = NoCounts

----------------------------------------------------------------------------
(* The unit harness: one call of each predictor on the same inputs *)

InitUnit ==
    /\ script = "unit"
    /\ pc = "call_v23"
    /\ \E in \in UnitInputs : p_n = in[1] /\ candidates = in[2]
    /\ messiness_map \in {Loaded(m) : m \in UnitMaps}
    /\ modulus = 6
    /\ i = 0
    /\ failures = 0
    /\ res = NoResults
    /\ NoOtherState
    /\ file = NoFile

Call_get_v23_prediction ==
    /\ script = "unit"
    /\ pc = "call_v23"
    /\ res' = [res EXCEPT !.v23 =
                  Some(get_v23_prediction(p_n, candidates, messiness_map.map, modulus))]
    /\ pc' = "call_flip"
    /\ UNCHANGED <<locals, target_N, primes, current_window, prime_file, counts, file, script, p_n, candidates, messiness_map, modulus, i, failures>>

Call_get_v23_internal_flip_prediction ==
    /\ script = "unit"
    /\ pc = "call_flip"
    /\ res' = [res EXCEPT !.flip =
                  Some(get_v23_internal_flip_prediction(p_n, candidates, messiness_map))]
    /\ pc' = "call_plr"
    /\ UNCHANGED <<locals, target_N, primes, current_window, prime_file, counts, file, script, p_n, candidates, messiness_map, modulus, i, failures>>

Call_get_plr_prediction ==
    /\ script = "unit"
    /\ pc = "call_plr"
    /\ res' = [res EXCEPT !.plr =
                  Some(get_plr_prediction(p_n, candidates, messiness_map.map))]
    /\ pc' = "done"
    /\ UNCHANGED <<locals, target_N, primes, current_window, prime_file, counts, file, script, p_n, candidates, messiness_map, modulus, i, failures>>

----------------------------------------------------------------------------
(* run_new_constant_test: the prediction loop over the sieved primes *)

InitNewConst ==
    /\ script = "NewConst"
    /\ pc = "loop"
    /\ p_n = 0
    /\ candidates = <<>>
    /\ messiness_map \in {Loaded(m) : m \in CleanMessyMaps}
    /\ modulus = 6
    /\ i = 0
    /\ failures = 0
    /\ res = NoResults
    /\ NoOtherState
    /\ file = NoFile

\* one pass of "for i in range(LIMIT)"
NewConstIter ==
    /\ script = "NewConst"
    /\ pc = "loop"
    /\ i < LIMIT
    /\ LET p == all_primes[i + 1]
           true_next == all_primes[i + 2]
           cands == Slice(all_primes, i + 1, i + 11)
           prediction == nc_get_v23_internal_flip_prediction(p, cands, messiness_map.map)
       IN /\ p_n' = p
          /\ candidates' = cands
          /\ res' = [res EXCEPT !.nc = Some(prediction)]
          /\ IF prediction.prediction # Some(true_next)
             THEN failures' = failures + 1 /\ pc' = "FAIL" /\ i' = i
             ELSE failures' = failures /\ pc' = "loop" /\ i' = i + 1
    /\ UNCHANGED <<locals, target_N, primes, current_window, prime_file, counts, file, script, messiness_map, modulus>>

\* the loop is over (range exhausted, or break): the report
NewConstReport ==
    /\ script = "NewConst"
    /\ \/ pc = "loop" /\ i >= LIMIT
       \/ pc = "FAIL"
    /\ pc' = IF failures = 0 THEN "accurate" ELSE "failures_detected"
    /\ UNCHANGED <<locals, target_N, primes, current_window, prime_file, counts, file, script, p_n, candidates, messiness_map, modulus, i, failures, res>>

----------------------------------------------------------------------------
(* run_scaling_test: one test (Mod 30 or Mod 210) over the loaded primes *)

\* load_primes_from_file: the first limit + 50 lines of the prime file
load_primes_from_file(limit) == Slice(all_primes, 0, limit + 50)

InitScaling ==
    /\ script = "Scaling"
    /\ pc = "loop"
    /\ p_n = 0
    /\ candidates = <<>>
    /\ messiness_map \in {Loaded(m) : m \in ScalingMaps}
    /\ modulus \in {30, 210}
    /\ i = 0
    /\ failures = 0
    /\ res = NoResults
    /\ NoOtherState
    /\ file = NoFile

max_index == Min2(Len(load_primes_from_file(TEST_LIMIT)) - 12, TEST_LIMIT)

\* one pass of "for i in range(max_index)"
ScalingIter ==
    /\ script = "Scaling"
    /\ pc = "loop"
    /\ i < max_index
    /\ LET loaded == load_primes_from_file(TEST_LIMIT)
           p == loaded[i + 1]
           true_next == loaded[i + 2]
           cands == Slice(loaded, i + 1, i + 11)
           pred == get_v23_prediction(p, cands, messiness_map.map, modulus)
       IN /\ p_n' = p
          /\ candidates' = cands
          /\ res' = [res EXCEPT !.v23 = Some(pred)]
          /\ IF pred.prediction # Some(true_next)
             THEN failures' = failures + 1 /\ pc' = "FAIL" /\ i' = i
             ELSE failures' = failures /\ pc' = "loop" /\ i' = i + 1
    /\ UNCHANGED <<locals, target_N, primes, current_window, prime_file, counts, file, script, messiness_map, modulus>>

\* the loop is over (range exhausted, or break): the result line and verdict
ScalingReport ==
    /\ script = "Scaling"
    /\ \/ pc = "loop" /\ i >= max_index
       \/ pc = "FAIL"
    /\ pc' = IF failures = 0 THEN "accurate" ELSE "failures_detected"
    /\ UNCHANGED <<locals, target_N, primes, current_window, prime_file, counts, file, script, p_n, candidates, messiness_map, modulus, i, failures, res>>

----------------------------------------------------------------------------

Init == InitUnit \/ InitNewConst \/ InitScaling

Next ==
    \/ Call_get_v23_prediction
    \/ Call_get_v23_internal_flip_prediction
    \/ Call_get_plr_prediction
    \/ NewConstIter
    \/ NewConstReport
    \/ ScalingIter
    \/ ScalingReport

Spec == Init /\ [][Next]_vars

----------------------------------------------------------------------------
(* A script's start: load the table, then the first prediction *)

InitLoader ==
    /\ script \in {"Mod_Scaling", "Crypto", "MemOpt"}
    /\ pc = "load"
    /\ file \in Files
    /\ messiness_map = NotLoaded
    /\ modulus = IF script = "Mod_Scaling" THEN 30 ELSE 6
    /\ p_n = 0
    /\ candidates = <<>>
    /\ i = 0
    /\ failures = 0
    /\ res = NoResults
    /\ NoOtherState

\* the loader reports success whatever it has stored
load_returned_True_always(M) == TRUE

\* the value the table loader returns: True (a list, in
\* load_all_data_into_memory) once the module-level table has been assigned,
\* False (None) from every except clause, which leaves the table None
load_returned_True(M) == ~M.none

\* "messiness_map = load_messiness_map(map_file); if not messiness_map: continue",
\* "if not load_engine_data(): return" and "if all_primes is None: return"
Load ==
    /\ script \in {"Mod_Scaling", "Crypto", "MemOpt"}
    /\ pc = "load"
    /\ LET m == IF script = "Mod_Scaling" THEN load_messiness_map(file)
                ELSE load_engine_data(file)
       IN /\ messiness_map' = m
          /\ pc' = IF ~load_returned_True(m) \/ (script = "Mod_Scaling" /\ m.map = EmptyDict)
                   THEN "not_loaded" ELSE "loaded"
    /\ UNCHANGED <<locals, target_N, primes, current_window, prime_file, counts, file, script, p_n, candidates, modulus, i, failures, res>>

\* the first pass of the script's loop over the primes, from some start index
FirstPrediction ==
    /\ script \in {"Mod_Scaling", "Crypto", "MemOpt"}
    /\ pc = "loaded"
    /\ \E idx \in 2..(MaxPrimeIdx + 1) :
          LET p == all_primes[idx + 1]
              cands == Slice(all_primes, idx + 1, idx + 11)
          IN /\ p_n' = p
             /\ candidates' = cands
             /\ IF script = "Mod_Scaling"
                THEN /\ res' = [res EXCEPT !.v23 =
                            Some(get_v23_prediction(p, cands, messiness_map.map, modulus))]
                     /\ pc' = "predicted"
                ELSE IF raises_TypeError(p, cands, messiness_map.map)
                THEN /\ res' = res
                     /\ pc' = "TypeError"
                ELSE /\ res' = [res EXCEPT !.flip =
                            Some(get_v23_internal_flip_prediction(p, cands, messiness_map))]
                     /\ pc' = "predicted"
    /\ UNCHANGED <<locals, target_N, primes, current_window, prime_file, counts, file, script, messiness_map, modulus, i, failures>>

NextLoader == Load \/ FirstPrediction

SpecLoader == InitLoader /\ [][NextLoader]_vars

----------------------------------------------------------------------------
(* alternate/test/PLR_RSA_Breaker.py and PLR_RSA_Breaker_Adaptive.py:      *)
(* the prime generators and the attacks that consume them                  *)

WINDOW == 100
BASE_WINDOW == 30
MAX_WINDOW == 10000

\* the elements of a set of integers as an increasing list
Ascending(S) ==
    [n \in 1..Cardinality(S) |->
        CHOOSE x \in S : Cardinality({y \in S : y < x}) = n - 1]

\* is_prime_cand stopping at the first p with p*p >= k
is_prime_cand_strict(k, prime_list) ==
    ~\E j \in 1..Len(prime_list) :
        /\ k % prime_list[j] = 0
        /\ \A h \in 1..j : prime_list[h] * prime_list[h] < k

\* trial division of k by the list, in list order, stopping at the first
\* p with p*p > k (generate_primes_plr)
is_prime_cand(k, prime_list) ==
    ~\E j \in 1..Len(prime_list) :
        /\ k % prime_list[j] = 0
        /\ \A h \in 1..j : prime_list[h] * prime_list[h] <= k

\* the same, stopping at the first p > int(math.sqrt(k)) (adaptive generator)
is_prime_cand_sqrt(k, prime_list) ==
    LET sqrt_k == ISqrt(k)
    IN ~\E j \in 1..Len(prime_list) :
          /\ k % prime_list[j] = 0
          /\ \A h \in 1..j : prime_list[h] <= sqrt_k

\* "for k in range(p_n + 2, search_limit, 2)": the candidates, increasing
pool_plr(pn, prime_list) ==
    Ascending({k \in (pn + 2)..(pn + WINDOW - 1) :
                  (k - pn) % 2 = 0 /\ is_prime_cand(k, prime_list)})
pool_adaptive(pn, window, prime_list) ==
    Ascending({k \in (pn + 2)..(pn + window - 1) :
                  (k - pn) % 2 = 0 /\ is_prime_cand_sqrt(k, prime_list)})

\* "if p_next:": neither None nor 0
Truthy(x) == x # None /\ x # Some(0)

\* break_rsa_standard: 2, or the least odd d in 3..int(sqrt(N)) dividing N
break_rsa_standard(N) ==
    IF N % 2 = 0 THEN Some(2)
    ELSE LET limit == ISqrt(N)
             ds == {d \in 3..limit : (d - 3) % 2 = 0 /\ N % d = 0}
         IN IF ds = {} THEN None
            ELSE Some(CHOOSE d \in ds : \A e \in ds : d <= e)

RSACounts == [checks |-> 0, std_factor |-> None, plr_factor |-> None]

InitRSA ==
    /\ script \in {"RSA_Breaker", "RSA_Adaptive"}
    /\ pc = IF script = "RSA_Adaptive" THEN "standard" ELSE "attack"
    /\ target_N \in 0..MaxN
    /\ locals = <<>>
    /\ primes = <<>>
    /\ current_window = 0
    /\ prime_file = NoPrimeFile
    /\ counts = RSACounts
    /\ file = NoFile
    /\ p_n = 0
    /\ candidates = <<>>
    /\ messiness_map = Loaded(MESSINESS_SCORES)
    /\ modulus = 6
    /\ i = 0
    /\ failures = 0
    /\ res = NoResults

\* run_benchmark: "std_factor, std_time = break_rsa_standard(key)"
RunStandard ==
    /\ script = "RSA_Adaptive"
    /\ pc = "standard"
    /\ counts' = [counts EXCEPT !.std_factor = break_rsa_standard(target_N)]
    /\ pc' = "attack"
    /\ UNCHANGED <<locals, target_N, primes, current_window, prime_file, file, script,
                   p_n, candidates, messiness_map, modulus, i, failures, res>>

\* break_rsa_key / break_rsa_adaptive up to the creation of the generator:
\* the trivial factors 2 and 3
Attack ==
    /\ script \in {"RSA_Breaker", "RSA_Adaptive"}
    /\ pc = "attack"
    /\ IF target_N % 2 = 0
       THEN /\ counts' = [counts EXCEPT !.plr_factor = Some(2)]
            /\ pc' = "returned"
            /\ UNCHANGED <<primes, p_n, current_window>>
       ELSE IF target_N % 3 = 0
       THEN /\ counts' = [counts EXCEPT !.plr_factor = Some(3)]
            /\ pc' = "returned"
            /\ UNCHANGED <<primes, p_n, current_window>>
       ELSE /\ primes' = <<2, 3>>
            /\ p_n' = 3
            /\ current_window' = IF script = "RSA_Adaptive" THEN BASE_WINDOW ELSE WINDOW
            /\ pc' = "generate"
            /\ counts' = counts
    /\ UNCHANGED <<locals, target_N, prime_file, file, script, candidates,
                   messiness_map, modulus, i, failures, res>>

\* generate_primes_plr: the head of a pass of the while loop, up to the call
\* of get_plr_prediction; when the generator ends, so does the attacker's for
\* loop, which returns None
generate_primes_plr ==
    /\ script = "RSA_Breaker"
    /\ pc = "generate"
    /\ IF p_n * p_n > target_N
       THEN /\ pc' = "returned"
            /\ UNCHANGED <<candidates, locals, i>>
       ELSE LET cands == pool_plr(p_n, primes)
            IN /\ candidates' = cands
               /\ IF cands = <<>>
                  THEN pc' = "returned" /\ UNCHANGED <<locals, i>>
                  ELSE pc' = "predict" /\ locals' = StreamInit /\ i' = 0
    /\ UNCHANGED <<target_N, primes, current_window, prime_file, counts, file, script,
                   p_n, messiness_map, modulus, failures, res>>

\* the window tripled
next_window_triple(window) == window * 3

\* the window left as it is
next_window_same(window) == window

\* "current_window *= 2"
next_window(window) == window * 2

\* generate_primes_adaptive_plr: the same head; an empty pool doubles the
\* window and retries from the same p_n, up to MAX_WINDOW
generate_primes_adaptive_plr ==
    /\ script = "RSA_Adaptive"
    /\ pc = "generate"
    /\ IF p_n * p_n > target_N
       THEN /\ pc' = "returned"
            /\ UNCHANGED <<candidates, locals, i, current_window>>
       ELSE LET cands == pool_adaptive(p_n, current_window, primes)
            IN /\ candidates' = cands
               /\ IF cands = <<>>
                  THEN /\ current_window' = next_window(current_window)
                       /\ pc' = IF next_window(current_window) > MAX_WINDOW
                                THEN "returned" ELSE "generate"
                       /\ UNCHANGED <<locals, i>>
                  ELSE /\ pc' = "predict"
                       /\ locals' = StreamInit
                       /\ i' = 0
                       /\ UNCHANGED current_window
    /\ UNCHANGED <<target_N, primes, prime_file, counts, file, script, p_n,
                   messiness_map, modulus, failures, res>>

\* get_plr_prediction: one pass of "for q in candidate_pool"
PredictPass ==
    /\ script \in {"RSA_Breaker", "RSA_Adaptive"}
    /\ pc = "predict"
    /\ i < Len(candidates)
    /\ locals' = StreamStep(locals, p_n, candidates[i + 1], messiness_map.map)
    /\ i' = i + 1
    /\ UNCHANGED <<target_N, primes, current_window, prime_file, counts, file, script,
                   pc, p_n, candidates, messiness_map, modulus, failures, res>>

\* get_plr_prediction: the logic gate and the return; then the tail of the
\* generator's pass: "if p_next:" append, advance and yield, else break
PredictReturn ==
    /\ script \in {"RSA_Breaker", "RSA_Adaptive"}
    /\ pc = "predict"
    /\ i >= Len(candidates)
    /\ LET p_next == StreamGate(locals)
       IN /\ res' = [res EXCEPT !.plr = Some(p_next)]
          /\ IF Truthy(p_next.prediction)
             THEN /\ primes' = Append(primes, p_next.prediction[1])
                  /\ p_n' = p_next.prediction[1]
                  /\ current_window' = IF script = "RSA_Adaptive" THEN BASE_WINDOW
                                       ELSE current_window
                  /\ pc' = "yielded"
             ELSE /\ pc' = "returned"
                  /\ UNCHANGED <<primes, p_n, current_window>>
    /\ UNCHANGED <<locals, target_N, prime_file, counts, file, script, candidates,
                   messiness_map, modulus, i, failures>>

\* the body of "for prime_factor in generator"
CheckFactor ==
    /\ script \in {"RSA_Breaker", "RSA_Adaptive"}
    /\ pc = "yielded"
    /\ IF target_N % p_n = 0
       THEN /\ counts' = [counts EXCEPT !.checks = @ + 1, !.plr_factor = Some(p_n)]
            /\ pc' = "returned"
       ELSE /\ counts' = [counts EXCEPT !.checks = @ + 1]
            /\ pc' = "generate"
    /\ UNCHANGED <<locals, target_N, primes, current_window, prime_file, file, script, p_n,
                   candidates, messiness_map, modulus, i, failures, res>>

\* run_benchmark: the comparison of the two factors
Compare ==
    /\ script = "RSA_Adaptive"
    /\ pc = "returned"
    /\ pc' = IF counts.std_factor = counts.plr_factor /\ counts.std_factor # None
             THEN "VERIFIED" ELSE "Mismatch"
    /\ UNCHANGED <<locals, target_N, primes, current_window, prime_file, counts, file, script,
                   p_n, candidates, messiness_map, modulus, i, failures, res>>

NextRSA ==
    \/ RunStandard
    \/ Attack
    \/ generate_primes_plr
    \/ generate_primes_adaptive_plr
    \/ PredictPass
    \/ PredictReturn
    \/ CheckFactor
    \/ Compare

SpecRSA == InitRSA /\ [][NextRSA]_vars

\* the two attacks on large keys: small targets, the square of the prime 1361
\* that follows the gap of 34 after 1327, and a prime just above it; the
\* scheduler runs the script as long as it has a step to take
InitAdaptive ==
    /\ script \in {"RSA_Breaker", "RSA_Adaptive"}
    /\ pc = IF script = "RSA_Adaptive" THEN "standard" ELSE "attack"
    /\ target_N \in (0..MaxSmallN) \cup {1852321, 1852327}
    /\ locals = <<>>
    /\ primes = <<>>
    /\ current_window = 0
    /\ prime_file = NoPrimeFile
    /\ counts = RSACounts
    /\ file = NoFile
    /\ p_n = 0
    /\ candidates = <<>>
    /\ messiness_map = Loaded(MESSINESS_SCORES)
    /\ modulus = 6
    /\ i = 0
    /\ failures = 0
    /\ res = NoResults

SpecAdaptive == InitAdaptive /\ [][NextRSA]_vars /\ WF_vars(NextRSA)

----------------------------------------------------------------------------
(* The prime files and the scripts that read them.                         *)
(*                                                                         *)
(* A prime file is a sequence of lines, each holding a prime; 'bad' is the *)
(* number of a line whose text is no integer (0: every line is one).       *)

\* the files: none, or the first L primes for a line count L that is 0, 10,
\* 20, one below, at or above the count a script asks for, or the whole
\* list; every line an integer, or line 1 or line 'required' malformed
PrimeFiles(required) ==
    {NoPrimeFile} \cup
    {[exists |-> TRUE, lines |-> Slice(all_primes, 0, L), bad |-> bad] :
        L \in {n \in {0, 10, 20, required - 1, required, required + 1, Len(all_primes)} :
                  n <= Len(all_primes)},
        bad \in {0, 1, required}}

\* "for i, line in enumerate(f): if i >= required: break; append(int(line))":
\* int() raises ValueError at the first malformed line among those read
raises_ValueError(f, required) ==
    f.bad >= 1 /\ f.bad <= Len(f.lines) /\ f.bad <= required

----------------------------------------------------------------------------
(* PLR_v25_Gap_Phase_Sieve: the v26 engine and its test *)

\* candidates_list.sort(key=lambda x: x - p_n): a stable sort
sort_by_gap(pn, list) ==
    LET before(h, j) == \/ list[h] - pn < list[j] - pn
                        \/ (list[h] - pn = list[j] - pn /\ h < j)
        at(n) == CHOOSE j \in DOMAIN list :
                     Cardinality({h \in DOMAIN list : before(h, j)}) = n - 1
    IN [n \in DOMAIN list |-> list[at(n)]]

\* the modulo phase lock admits every gap, whatever the anchor
v26_blocked_never(pn, q) == FALSE

\* the modulo phase lock: "continue" on q
v26_blocked(pn, q) ==
    LET gap == q - pn
        residue == (pn + q) % 6
    IN IF gap % 6 = 0 THEN residue = 0 ELSE residue # 0

\* the caller's list is the object the callee has sorted
caller_list_shared(candidates_of_caller, candidates_list) == candidates_list

\* "get_v26_prediction(p_n, list(candidates))": the callee gets, and sorts, a
\* copy candidates_list; the caller's list is what it was
caller_list(candidates_of_caller, candidates_list) == candidates_of_caller

get_v26_prediction(pn, candidates_list) ==
    LET sorted == sort_by_gap(pn, candidates_list)
        open == {j \in DOMAIN sorted : ~v26_blocked(pn, sorted[j])}
    IN IF open = {} THEN None
       ELSE Some(sorted[CHOOSE j \in open : \A h \in open : j <= h])

\* load_primes(filename, limit): [] for a missing file and for any exception
load_primes(f, limit) ==
    IF ~f.exists \/ raises_ValueError(f, limit + 50) THEN <<>>
    ELSE Slice(f.lines, 0, limit + 50)

InitV26 ==
    /\ script = "v26"
    /\ pc = "load"
    /\ prime_file \in PrimeFiles(TEST_LIMIT_v26 + 50)
    /\ locals = <<>>
    /\ target_N = 0
    /\ primes = <<>>
    /\ current_window = 0
    /\ counts = NoCounts
    /\ file = NoFile
    /\ p_n = 0
    /\ candidates = <<>>
    /\ messiness_map = NotLoaded
    /\ modulus = 6
    /\ i = 0
    /\ failures = 0
    /\ res = NoResults

\* run_v26_test up to the loop: "if not primes: return"
V26Load ==
    /\ script = "v26"
    /\ pc = "load"
    /\ primes' = load_primes(prime_file, TEST_LIMIT_v26)
    /\ pc' = IF primes' = <<>> THEN "returned" ELSE "loop"
    /\ UNCHANGED <<locals, target_N, current_window, prime_file, counts, file, script,
                   p_n, candidates, messiness_map, modulus, i, failures, res>>

\* one pass of "for i in range(TEST_LIMIT)"; primes[i] and primes[i+1] raise
\* IndexError past the end of the list, and nothing catches it
V26Pass ==
    /\ script = "v26"
    /\ pc = "loop"
    /\ i < TEST_LIMIT_v26
    /\ IF i + 2 > Len(primes)
       THEN /\ pc' = "IndexError"
            /\ UNCHANGED <<locals, p_n, candidates, i, failures>>
       ELSE LET pn == primes[i + 1]
                true_next == primes[i + 2]
                pool == Slice(primes, i + 1, i + 11)
                prediction == get_v26_prediction(pn, pool)
            IN /\ p_n' = pn
               /\ IF pn <= 3
                  THEN /\ i' = i + 1
                       /\ pc' = "loop"
                       /\ UNCHANGED <<locals, candidates, failures>>
                  ELSE /\ candidates' = caller_list(pool, sort_by_gap(pn, pool))
                       /\ locals' = [prediction |-> prediction, true_next |-> true_next]
                       /\ IF prediction # Some(true_next)
                          THEN failures' = failures + 1 /\ pc' = "report" /\ i' = i
                          ELSE failures' = failures /\ pc' = "loop" /\ i' = i + 1
    /\ UNCHANGED <<target_N, primes, current_window, prime_file, counts, file, script,
                   messiness_map, modulus, res>>

\* the end of the loop: the result lines
V26Report ==
    /\ script = "v26"
    /\ \/ pc = "loop" /\ i >= TEST_LIMIT_v26
       \/ pc = "report"
    /\ pc' = IF failures = 0 THEN "100.00% ACCURACY" ELSE "Failures"
    /\ UNCHANGED <<locals, target_N, primes, current_window, prime_file, counts, file, script,
                   p_n, candidates, messiness_map, modulus, i, failures, res>>

NextV26 == V26Load \/ V26Pass \/ V26Report

SpecV26 == InitV26 /\ [][NextV26]_vars

\* a prime file whose fifth and sixth lines have changed places
SwappedFile ==
    [exists |-> TRUE,
     lines |-> [n \in 1..(TEST_LIMIT_v26 + 50) |->
                   IF n = 5 THEN all_primes[6]
                   ELSE IF n = 6 THEN all_primes[5] ELSE all_primes[n]],
     bad |-> 0]

\* the callers of the predictors: the unit harness, the two loops over the
\* primes, and run_v26_test on its files and on the file out of order
InitCallers ==
    \/ Init
    \/ InitV26
    \/ /\ script = "v26"
       /\ pc = "load"
       /\ prime_file = SwappedFile
       /\ locals = <<>>
       /\ target_N = 0
       /\ primes = <<>>
       /\ current_window = 0
       /\ counts = NoCounts
       /\ file = NoFile
       /\ p_n = 0
       /\ candidates = <<>>
       /\ messiness_map = NotLoaded
       /\ modulus = 6
       /\ i = 0
       /\ failures = 0
       /\ res = NoResults

SpecCallers == InitCallers /\ [][Next \/ NextV26]_vars

----------------------------------------------------------------------------
(* The next-prime predictors: PLR_Next_Prime_Generator (V2) and             *)
(* PLR_o1_next_prime_predict (O1).  The lists of the code are kept as sets  *)
(* of gaps g, in increasing order as range(2, POOL_WIDTH + 1) appends them. *)

S_N_MESSINESS_MAP == (0 :> Fin(10000)) @@ (2 :> Fin(216000)) @@ (4 :> Fin(206000))
MESSINESS_MAP_V_MOD6_GAP ==
    (0 :> Fin(10000)) @@ (1 :> Fin(0)) @@ (2 :> Fin(10000)) @@
    (3 :> Fin(20000)) @@ (4 :> Fin(20000)) @@ (5 :> Fin(0))
CLEAN_THRESHOLD == Fin(30000)
DEPTH_THRESHOLD == 4
POOL_WIDTH == 210
PAC_FILTER_PRIMES == <<2, 3, 5, 7, 11, 13>>

\* is_prime / is_prime_slow: trial division by 2, 3 and i, i + 2 for
\* i = 5, 11, 17, ... while i * i <= n
is_prime(n) ==
    IF n <= 1 THEN FALSE
    ELSE IF n <= 3 THEN TRUE
    ELSE IF n % 2 = 0 \/ n % 3 = 0 THEN FALSE
    ELSE \A k \in 0..(MaxRoot \div 6) :
             LET d == 5 + 6 * k
             IN d * d <= n => (n % d # 0 /\ n % (d + 2) # 0)

\* TRUE if composite by the fixed list, FALSE if "prime candidate"
pac_primorial_filter(n) ==
    \E j \in DOMAIN PAC_FILTER_PRIMES : n % PAC_FILTER_PRIMES[j] = 0

\* get_messiness_score(p_n, candidate_p) of the two predictors
np_get_messiness_score(pn, candidate_p) ==
    DictGet(S_N_MESSINESS_MAP, (pn + candidate_p) % 6, Fin(9990000))

\* the logic gate of the O1 predictor
np_flip_guarded(g_messy_low, g_v16_winner) ==
    g_messy_low # -1 /\ g_messy_low < g_v16_winner

\* the logic gate of the V2 predictor
np_flip(g_messy_low, g_v16_winner) == g_messy_low < g_v16_winner

\* the body shared by the two predictors, on the gaps gs of the candidates
\* that passed the filter; 'flips' is the outcome of the gate's condition
np_locals(pn, gs) ==
    LET mess(g) == np_get_messiness_score(pn, pn + g)
        \* the first candidate with messiness >= MESSY_THRESHOLD
        messy == {g \in gs : ~FLt(mess(g), MESSY_THRESHOLD)}
        g_messy_low == IF messy = {} THEN -1
                       ELSE CHOOSE g \in messy : \A h \in messy : g <= h
        clean_pool == {g \in gs : FLt(mess(g), CLEAN_THRESHOLD)}
        \* sorted(candidates, key=mess)[0]: the first of the least messiness
        by_mess == CHOOSE g \in gs :
                       /\ \A h \in gs : ~FLt(mess(h), mess(g))
                       /\ \A h \in gs : h < g => FLt(mess(g), mess(h))
        \* the first DEPTH_THRESHOLD clean candidates, and among them the
        \* first of the least gap messiness (strictly below float('inf'))
        chain == {g \in clean_pool :
                     Cardinality({h \in clean_pool : h < g}) < DEPTH_THRESHOLD}
        gm(g) == DictGet(MESSINESS_MAP_V_MOD6_GAP, g % 6, Fin(9990000))
        by_chain == CHOOSE g \in chain :
                        /\ \A h \in chain : ~FLt(gm(h), gm(g))
                        /\ \A h \in chain : h < g => FLt(gm(g), gm(h))
        g_v16_winner == IF Cardinality(clean_pool) <= 1 THEN by_mess ELSE by_chain
    IN [candidates |-> {pn + g : g \in gs},
        g_messy_low |-> g_messy_low,
        p_messy_low |-> IF g_messy_low = -1 THEN -1 ELSE pn + g_messy_low,
        g_v16_winner |-> g_v16_winner,
        p_v16_winner |-> pn + g_v16_winner]

\* str(final_prediction), or the error text when no candidate passed
np_return(pn, gs, flips) ==
    IF gs = {} THEN [l |-> [candidates |-> {}], predicted_prime |-> PyStr("Error", 0)]
    ELSE LET l == np_locals(pn, gs)
         IN [l |-> l,
             predicted_prime |->
                 PyStr("num", IF flips THEN l.p_messy_low ELSE l.p_v16_winner)]

get_v23_prediction_V2(pn) ==
    LET gs == {g \in 2..POOL_WIDTH : is_prime(pn + g)}
    IN np_return(pn, gs,
                 gs # {} /\ np_flip(np_locals(pn, gs).g_messy_low,
                                    np_locals(pn, gs).g_v16_winner))

get_v23_prediction_O1(pn) ==
    LET gs == {g \in 2..POOL_WIDTH : ~pac_primorial_filter(pn + g)}
    IN np_return(pn, gs,
                 gs # {} /\ np_flip_guarded(np_locals(pn, gs).g_messy_low,
                                            np_locals(pn, gs).g_v16_winner))

\* what the user types: an integer up to MaxInput, or a prime whose next
\* 210 numbers hold no prime of its own residue class modulo 6
NextPrimeInputs == (0..MaxInput) \cup {406907}

InitNextPrime ==
    /\ script \in {"V2", "O1"}
    /\ pc = "input"
    /\ p_n \in NextPrimeInputs
    /\ locals = <<>>
    /\ target_N = 0
    /\ primes = <<>>
    /\ current_window = 0
    /\ prime_file = NoPrimeFile
    /\ counts = NoCounts
    /\ file = NoFile
    /\ candidates = <<>>
    /\ messiness_map = Loaded(S_N_MESSINESS_MAP)
    /\ modulus = 6
    /\ i = 0
    /\ failures = 0
    /\ res = NoResults

\* __main__ of either script up to the printed log: the guard on the input
\* and the call of the predictor
NextPrimeMain ==
    /\ script \in {"V2", "O1"}
    /\ pc = "input"
    /\ IF script = "V2"
       THEN IF p_n < 5 \/ ~is_prime(p_n)
            THEN pc' = "exit" /\ UNCHANGED locals
            ELSE pc' = "predicted" /\ locals' = get_v23_prediction_V2(p_n)
       ELSE IF p_n < 13
            THEN pc' = "exit" /\ UNCHANGED locals
            ELSE pc' = "predicted" /\ locals' = get_v23_prediction_O1(p_n)
    /\ UNCHANGED <<target_N, primes, current_window, prime_file, counts, file, script,
                   p_n, candidates, messiness_map, modulus, i, failures, res>>

\* __main__ of the O1 script: is_prime_slow(int(predicted_prime))
NextPrimeVerify ==
    /\ script = "O1"
    /\ pc = "predicted"
    /\ pc' = IF locals.predicted_prime.k # "str:num" THEN "ValueError"
             ELSE IF is_prime(locals.predicted_prime.v) THEN "SUCCESS" ELSE "FAILURE"
    /\ UNCHANGED <<locals, target_N, primes, current_window, prime_file, counts, file, script,
                   p_n, candidates, messiness_map, modulus, i, failures, res>>

NextNextPrime == NextPrimeMain \/ NextPrimeVerify

SpecNextPrime == InitNextPrime /\ [][NextNextPrime]_vars

----------------------------------------------------------------------------
(* PLR_Twin_Prime_Sniper: run_sniper_test.  counts holds LIMIT, TARGET_TWINS *)
(* and the counters of the two runs; i is the position of a run in primes.  *)

\* "if p % 6 == 5": the sniper scope
in_scope(p) == p % 6 = 5

SniperCounts(limit, target) ==
    [LIMIT |-> limit, TARGET_TWINS |-> target,
     found_twins_bf |-> 0, checks_bf |-> 0,
     found_twins_plr |-> 0, checks_plr |-> 0, skipped_checks |-> 0]

InitSniper ==
    /\ script = "Sniper"
    /\ pc = "setup"
    /\ counts \in {SniperCounts(limit, target) :
                      limit \in 2..MaxSniperLimit, target \in 1..MaxTarget}
    /\ locals = <<>>
    /\ target_N = 0
    /\ primes = <<>>
    /\ current_window = 0
    /\ prime_file = NoPrimeFile
    /\ file = NoFile
    /\ p_n = 0
    /\ candidates = <<>>
    /\ messiness_map = NotLoaded
    /\ modulus = 6
    /\ i = 0
    /\ failures = 0
    /\ res = NoResults

\* the sieve of LIMIT + 1 entries and the list of its primes
SniperSetup ==
    /\ script = "Sniper"
    /\ pc = "setup"
    /\ primes' = get_primes_and_set(counts.LIMIT).primes
    /\ i' = 0
    /\ pc' = "brute"
    /\ UNCHANGED <<locals, target_N, current_window, prime_file, counts, file, script,
                   p_n, candidates, messiness_map, modulus, failures, res>>

\* one pass of the brute force run's "for p in primes"; the run ends at the
\* end of the list, at p + 2 >= LIMIT and at TARGET_TWINS twins
BrutePass ==
    /\ script = "Sniper"
    /\ pc = "brute"
    /\ IF i >= Len(primes) \/ primes[i + 1] + 2 >= counts.LIMIT
       THEN /\ pc' = "sniper"
            /\ i' = 0
            /\ UNCHANGED <<counts, p_n>>
       ELSE LET p == primes[i + 1]
                twin == get_primes_and_set(counts.LIMIT).sieve[p + 2]
                found == counts.found_twins_bf + (IF twin THEN 1 ELSE 0)
            IN /\ p_n' = p
               /\ counts' = [counts EXCEPT !.checks_bf = @ + 1, !.found_twins_bf = found]
               /\ IF twin /\ found >= counts.TARGET_TWINS
                  THEN pc' = "sniper" /\ i' = 0
                  ELSE pc' = "brute" /\ i' = i + 1
    /\ UNCHANGED <<locals, target_N, primes, current_window, prime_file, file, script,
                   candidates, messiness_map, modulus, failures, res>>

\* one pass of the sniper run's "for p in primes"
SniperPass ==
    /\ script = "Sniper"
    /\ pc = "sniper"
    /\ IF i >= Len(primes) \/ primes[i + 1] + 2 >= counts.LIMIT
       THEN /\ pc' = "verdict"
            /\ UNCHANGED <<counts, p_n, i>>
       ELSE LET p == primes[i + 1]
                twin == get_primes_and_set(counts.LIMIT).sieve[p + 2]
                found == counts.found_twins_plr + (IF twin THEN 1 ELSE 0)
            IN /\ p_n' = p
               /\ IF in_scope(p)
                  THEN /\ counts' = [counts EXCEPT !.checks_plr = @ + 1,
                                                   !.found_twins_plr = found]
                       /\ IF twin /\ found >= counts.TARGET_TWINS
                          THEN pc' = "verdict" /\ i' = i
                          ELSE pc' = "sniper" /\ i' = i + 1
                  ELSE /\ counts' = [counts EXCEPT !.skipped_checks = @ + 1]
                       /\ pc' = "sniper"
                       /\ i' = i + 1
    /\ UNCHANGED <<locals, target_N, primes, current_window, prime_file, file, script,
                   candidates, messiness_map, modulus, failures, res>>

\* the verdict; with no neighbour check of the brute force run the
\* reduction's division raises ZeroDivisionError before it
SniperVerdict ==
    /\ script = "Sniper"
    /\ pc = "verdict"
    /\ pc' = IF counts.checks_bf = 0 THEN "ZeroDivisionError"
             ELSE IF counts.found_twins_bf # counts.found_twins_plr
             THEN "CRITICAL FAILURE" ELSE "SUCCESS"
    /\ UNCHANGED <<locals, target_N, primes, current_window, prime_file, counts, file, script,
                   p_n, candidates, messiness_map, modulus, i, failures, res>>

NextSniper == SniperSetup \/ BrutePass \/ SniperPass \/ SniperVerdict

SpecSniper == InitSniper /\ [][NextSniper]_vars

----------------------------------------------------------------------------
(* The other scripts that read a list of integers from a file: PLR_TPC,     *)
(* PLR_RNG_Validation, PLR_Mod_Scaling_Test and PLR_TPC_Triplets.           *)

START_INDEX == 10
NUM_CANDIDATES_TO_CHECK == 10

\* A loader hands back [k, list]: k is "list" with the list returned, "None"
\* for a return of None, or the name of the exception that left it.

\* PLR_TPC.load_primes_from_file: every line is read; only FileNotFoundError
\* is caught
tpc_load_primes_from_file(f) ==
    IF ~f.exists THEN [k |-> "None", list |-> <<>>]
    ELSE IF raises_ValueError(f, Len(f.lines)) THEN [k |-> "ValueError", list |-> <<>>]
    ELSE IF Len(f.lines) < PRIMES_TO_TEST + START_INDEX + NUM_CANDIDATES_TO_CHECK + 2
    THEN [k |-> "None", list |-> <<>>]
    ELSE [k |-> "list", list |-> f.lines]

\* PLR_RNG_Validation.load_rng_numbers: FileNotFoundError and ValueError are
\* caught
load_rng_numbers(f) ==
    IF ~f.exists THEN [k |-> "None", list |-> <<>>]
    ELSE IF raises_ValueError(f, Len(f.lines)) THEN [k |-> "None", list |-> <<>>]
    ELSE IF Len(f.lines) < NUMBERS_TO_TEST + START_INDEX + NUM_CANDIDATES_TO_CHECK + 2
    THEN [k |-> "None", list |-> <<>>]
    ELSE [k |-> "list", list |-> f.lines]

\* PLR_Mod_Scaling_Test.load_primes_from_file: every exception is caught; a
\* list shorter than required only prints a warning
scaling_load_primes_from_file(f, limit) ==
    IF ~f.exists THEN [k |-> "None", list |-> <<>>]
    ELSE IF raises_ValueError(f, limit + 50) THEN [k |-> "None", list |-> <<>>]
    ELSE [k |-> "list", list |-> Slice(f.lines, 0, limit + 50)]

\* PLR_TPC_Triplets.run_triplet_analysis: os.path.exists, then the list
\* comprehension outside any try
triplets_load(f) ==
    IF ~f.exists THEN [k |-> "None", list |-> <<>>]
    ELSE IF raises_ValueError(f, PRIMES_TO_TEST + 500) THEN [k |-> "ValueError", list |-> <<>>]
    ELSE [k |-> "list", list |-> Slice(f.lines, 0, PRIMES_TO_TEST + 500)]

\* the loader of a script, and the count of lines its test range needs
FileLoad(s, f) ==
    CASE s = "TPC" -> tpc_load_primes_from_file(f)
      [] s = "RNG" -> load_rng_numbers(f)
      [] s = "Mod_Scaling" -> scaling_load_primes_from_file(f, TEST_LIMIT)
      [] s = "Triplets" -> triplets_load(f)

RequiredCount(s) ==
    CASE s = "TPC" -> PRIMES_TO_TEST + START_INDEX + NUM_CANDIDATES_TO_CHECK + 2
      [] s = "RNG" -> NUMBERS_TO_TEST + START_INDEX + NUM_CANDIDATES_TO_CHECK + 2
      [] s = "Mod_Scaling" -> TEST_LIMIT + 50
      [] s = "Triplets" -> PRIMES_TO_TEST + 1
      [] s = "v26" -> TEST_LIMIT_v26 + 1

\* the end of the range of the main loop over the loaded list
LoopEnd(s, list) ==
    CASE s = "TPC" -> PRIMES_TO_TEST + START_INDEX
      [] s = "RNG" -> NUMBERS_TO_TEST + START_INDEX
      [] s = "Mod_Scaling" -> Min2(Len(list) - 12, TEST_LIMIT)
      [] s = "Triplets" -> PRIMES_TO_TEST

FileCounts ==
    [total |-> 0, twin |-> 0, cousin |-> 0, sexy_con |-> 0, triplet_a |-> 0,
     triplet_b |-> 0, prev_gap |-> 0, total_successes |-> 0]

\* the numbers of an RNG output file
rng_output == [j \in 1..Len(all_primes) |-> (j * j * 37 + 11) % 101]

InitFiles ==
    /\ script \in {"TPC", "RNG", "Mod_Scaling", "Triplets"}
    /\ pc = "load"
    /\ prime_file \in
          {IF script = "RNG" /\ f.exists
           THEN [f EXCEPT !.lines = Slice(rng_output, 0, Len(f.lines))] ELSE f :
              f \in PrimeFiles(RequiredCount(script))}
    /\ messiness_map \in {Loaded(MESSINESS_SCORES), NotLoaded}
    /\ modulus = IF script = "Mod_Scaling" THEN 30 ELSE 6
    /\ counts = FileCounts
    /\ locals = <<>>
    /\ target_N = 0
    /\ primes = <<>>
    /\ current_window = 0
    /\ file = NoFile
    /\ p_n = 0
    /\ candidates = <<>>
    /\ i = 0
    /\ failures = 0
    /\ res = NoResults

\* the run function up to its main loop: the table, the list and the guards
FilesLoad ==
    /\ script \in {"TPC", "RNG", "Mod_Scaling", "Triplets"}
    /\ pc = "load"
    /\ LET loaded == FileLoad(script, prime_file)
           n == Len(loaded.list)
       IN IF script \in {"TPC", "RNG"} /\ ~load_returned_True(messiness_map)
          THEN pc' = "returned" /\ UNCHANGED <<primes, i>>
          ELSE IF loaded.k = "ValueError"
          THEN pc' = "ValueError" /\ UNCHANGED <<primes, i>>
          ELSE IF loaded.k = "None"
          THEN pc' = "returned" /\ UNCHANGED <<primes, i>>
          ELSE /\ primes' = loaded.list
               /\ i' = IF script \in {"TPC", "RNG"} THEN START_INDEX ELSE 0
               /\ pc' = CASE script \in {"TPC", "RNG"} ->
                                 IF LoopEnd(script, loaded.list)
                                        >= n - (NUM_CANDIDATES_TO_CHECK + 2)
                                 THEN "returned" ELSE "loop"
                          [] script = "Mod_Scaling" ->
                                 IF n = 0 THEN "returned"
                                 ELSE IF messiness_map.none THEN "report" ELSE "loop"
                          [] script = "Triplets" -> "loop"
    /\ UNCHANGED <<locals, target_N, current_window, prime_file, counts, file, script,
                   p_n, candidates, messiness_map, modulus, failures, res>>

\* the test with the gaps in the order of triplet B
triplet_a_as_b(gap, prev_gap) == gap = 2 /\ prev_gap = 4

\* "if gap == 4 and prev_gap == 2": the gap sequence 2 then 4
triplet_a(gap, prev_gap) == gap = 4 /\ prev_gap = 2

\* one pass of the main loop of the script
FilesPass ==
    /\ script \in {"TPC", "RNG", "Mod_Scaling", "Triplets"}
    /\ pc = "loop"
    /\ i < LoopEnd(script, primes)
    /\ IF i + 2 > Len(primes)
       THEN /\ pc' = "IndexError"
            /\ UNCHANGED <<counts, p_n, candidates, i, failures, res>>
       ELSE LET pn == primes[i + 1]
                true_next == primes[i + 2]
                pool == Slice(primes, i + 1, i + NUM_CANDIDATES_TO_CHECK + 1)
            IN /\ p_n' = pn
               /\ CASE script \in {"TPC", "RNG"} ->
                        LET pred == get_v23_internal_flip_prediction(pn, pool, messiness_map)
                            g == pred.prediction[1] - pn
                        IN /\ candidates' = pool
                           /\ res' = [res EXCEPT !.flip = Some(pred)]
                           /\ counts' =
                                 [counts EXCEPT
                                     !.total = @ + 1,
                                     !.twin = @ + (IF script = "TPC" /\ g = 2 THEN 1 ELSE 0),
                                     !.cousin = @ + (IF script = "TPC" /\ g = 4 THEN 1 ELSE 0),
                                     !.total_successes =
                                         @ + (IF script = "RNG" /\ pred.prediction = Some(true_next)
                                              THEN 1 ELSE 0)]
                           /\ i' = i + 1
                           /\ pc' = "loop"
                           /\ UNCHANGED failures
                    [] script = "Mod_Scaling" ->
                        LET pred == get_v23_prediction(pn, pool, messiness_map.map, modulus)
                        IN /\ candidates' = pool
                           /\ res' = [res EXCEPT !.v23 = Some(pred)]
                           /\ counts' = [counts EXCEPT !.total = @ + 1]
                           /\ IF pred.prediction # Some(true_next)
                              THEN failures' = failures + 1 /\ pc' = "report" /\ i' = i
                              ELSE failures' = failures /\ pc' = "loop" /\ i' = i + 1
                    [] script = "Triplets" ->
                        LET gap == true_next - pn
                        IN /\ counts' =
                                 [counts EXCEPT
                                     !.total = @ + 1,
                                     !.twin = @ + (IF gap = 2 THEN 1 ELSE 0),
                                     !.cousin = @ + (IF gap = 4 THEN 1 ELSE 0),
                                     !.sexy_con = @ + (IF gap = 6 THEN 1 ELSE 0),
                                     !.triplet_a =
                                         @ + (IF triplet_a(gap, counts.prev_gap) THEN 1 ELSE 0),
                                     !.triplet_b =
                                         @ + (IF gap = 2 /\ counts.prev_gap = 4 THEN 1 ELSE 0),
                                     !.prev_gap = gap]
                           /\ i' = i + 1
                           /\ pc' = "loop"
                           /\ UNCHANGED <<candidates, failures, res>>
    /\ UNCHANGED <<locals, target_N, primes, current_window, prime_file, file, script,
                   messiness_map, modulus>>

\* the end of the main loop: the report
FilesReport ==
    /\ script \in {"TPC", "RNG", "Mod_Scaling", "Triplets"}
    /\ pc = "loop"
    /\ i >= LoopEnd(script, primes)
    /\ pc' = "report"
    /\ UNCHANGED <<locals, target_N, primes, current_window, prime_file, counts, file, script,
                   p_n, candidates, messiness_map, modulus, i, failures, res>>

NextFiles == FilesLoad \/ FilesPass \/ FilesReport \/ V26Load \/ V26Pass \/ V26Report

SpecFiles == (InitFiles \/ InitV26) /\ [][NextFiles]_vars

\* the scripts that load a table before they predict
SpecTables ==
    (InitLoader \/ InitFiles)
        /\ [][Load \/ FirstPrediction \/ FilesLoad \/ FilesPass \/ FilesReport]_vars

----------------------------------------------------------------------------
(* alternate/test/PLR_True_Wheel_Benchmark.py: the brute-force search and   *)
(* the mod 30 wheel; each returns (prime, candidates_checked), of which the *)
(* prime is kept                                                            *)

POOL_SIZE == 210
WHEEL_OFFSETS == <<6, 4, 2, 4, 2, 4, 6, 2>>
WHEEL_LENGTH == Len(WHEEL_OFFSETS)
initial_residues == <<1, 7, 11, 13, 17, 19, 23, 29>>

\* every odd number from n + 1 or n + 2 up to n + POOL_SIZE, the first prime
find_next_prime_control(n) ==
    LET start == IF n % 2 = 0 THEN n + 1 ELSE n + 2
        hits == {c \in start..(n + POOL_SIZE) : (c - start) % 2 = 0 /\ is_prime(c)}
    IN IF hits = {} THEN None
       ELSE Some(CHOOSE c \in hits : \A d \in hits : c <= d)

\* the candidates of the wheel's main loop, in order: the start, the
\* starting index into WHEEL_OFFSETS, and the candidate after k steps
wheel_candidates(n) ==
    LET reached == {c \in (n + 1)..(n + POOL_SIZE + 1) :
                       ~(c % 2 = 0 \/ c % 3 = 0 \/ c % 5 = 0) \/ c > n + POOL_SIZE}
        candidate == CHOOSE c \in reached : \A d \in reached : c <= d
        found == {idx \in 0..(Len(initial_residues) - 1) :
                     (candidate - n - 1) % 30 = initial_residues[idx + 1]}
        current_index == IF found = {} THEN 0
                         ELSE CHOOSE idx \in found : \A h \in found : idx <= h
        added(k) == Cardinality({ju \in (0..(k - 1)) \X (1..6) :
                        ju[2] <= WHEEL_OFFSETS[((current_index + ju[1]) % WHEEL_LENGTH) + 1]})
    IN [k \in 0..POOL_SIZE |-> candidate + added(k)]

\* the main loop: the first candidate within n + POOL_SIZE that is prime
find_next_prime_wheel_optimized(n) ==
    LET tested == wheel_candidates(n)
        hits == {k \in DOMAIN tested : tested[k] <= n + POOL_SIZE /\ is_prime(tested[k])}
    IN IF hits = {} THEN None
       ELSE Some(tested[CHOOSE k \in hits : \A h \in hits : k <= h])

\* run_benchmark calls both searches on each of its test numbers
InitWheel ==
    /\ script = "Wheel"
    /\ pc = "control"
    /\ target_N \in 0..MaxWheelN
    /\ locals = [control |-> None, wheel |-> None]
    /\ primes = <<>>
    /\ current_window = 0
    /\ prime_file = NoPrimeFile
    /\ counts = NoCounts
    /\ file = NoFile
    /\ p_n = 0
    /\ candidates = <<>>
    /\ messiness_map = NotLoaded
    /\ modulus = 6
    /\ i = 0
    /\ failures = 0
    /\ res = NoResults

WheelControl ==
    /\ script = "Wheel"
    /\ pc = "control"
    /\ locals' = [locals EXCEPT !.control = find_next_prime_control(target_N)]
    /\ pc' = "wheel"
    /\ UNCHANGED <<target_N, primes, current_window, prime_file, counts, file, script,
                   p_n, candidates, messiness_map, modulus, i, failures, res>>

\* the wheel search; the candidates its loop has tested are kept
WheelOptimized ==
    /\ script = "Wheel"
    /\ pc = "wheel"
    /\ locals' = [locals EXCEPT !.wheel = find_next_prime_wheel_optimized(target_N)]
    /\ candidates' =
          LET tested == wheel_candidates(target_N)
              last == {k \in DOMAIN tested :
                          \/ tested[k] > target_N + POOL_SIZE
                          \/ is_prime(tested[k])}
              stop == CHOOSE k \in last : \A h \in last : k <= h
          IN [j \in 1..(IF tested[stop] > target_N + POOL_SIZE THEN stop ELSE stop + 1)
                 |-> tested[j - 1]]
    /\ pc' = "done"
    /\ UNCHANGED <<target_N, primes, current_window, prime_file, counts, file, script,
                   p_n, messiness_map, modulus, i, failures, res>>

SpecWheel == InitWheel /\ [][WheelControl \/ WheelOptimized]_vars

----------------------------------------------------------------------------
(* Analytic/Tests/PLR_Constant_Drift_Analysis.py: LIMIT and CHECKPOINTS are *)
(* kept in proportion, 50 and 1, 5, 10, ..., 50 times a unit that is a      *)
(* million in the script; the sieve runs SIEVE_MARGIN past LIMIT            *)

CHECKPOINT_UNITS == <<1, 5, 10, 15, 20, 25, 30, 35, 40, 45, 50>>
CHECKPOINTS(unit) == [j \in DOMAIN CHECKPOINT_UNITS |-> CHECKPOINT_UNITS[j] * unit]
SEARCH_RADIUS == 400

DriftCounts ==
    [clean_failures |-> 0, clean_total |-> 0, messy_failures |-> 0, messy_total |-> 0]

\* "for k in range(1, 400)": the first k with a prime other than p and p_next
\* at anchor - k or anchor + k, as [found_k, k_is_safe]
nearest_structure(p, p_next, prime_set) ==
    LET anchor == p + p_next
        hits == {k \in 1..(SEARCH_RADIUS - 1) :
                    \/ (anchor - k # p /\ anchor - k # p_next /\ anchor - k \in prime_set)
                    \/ (anchor + k # p /\ anchor + k # p_next /\ anchor + k \in prime_set)}
        k == CHOOSE k \in hits : \A h \in hits : k <= h
    IN IF hits = {} THEN [found_k |-> FALSE, k_is_safe |-> FALSE]
       ELSE [found_k |-> TRUE, k_is_safe |-> (k = 1 \/ k \in prime_set)]

InitDrift ==
    /\ script = "Drift"
    /\ pc = "setup"
    /\ \E unit \in 1..MaxUnit :
          /\ target_N = CHECKPOINT_UNITS[Len(CHECKPOINT_UNITS)] * unit
          /\ candidates = CHECKPOINTS(unit)
    /\ locals = <<>>
    /\ primes = <<>>
    /\ current_window = 0
    /\ prime_file = NoPrimeFile
    /\ counts = DriftCounts
    /\ file = NoFile
    /\ p_n = 0
    /\ messiness_map = NotLoaded
    /\ modulus = 6
    /\ i = 0
    /\ failures = 0
    /\ res = NoResults

\* the sieve of LIMIT + 1000 entries and prime_list; stats_history = []
DriftSetup ==
    /\ script = "Drift"
    /\ pc = "setup"
    /\ primes' = Enumerate(Sieve(target_N + SIEVE_MARGIN))
    /\ pc' = "loop"
    /\ UNCHANGED <<locals, target_N, current_window, prime_file, counts, file, script,
                   p_n, candidates, messiness_map, modulus, i, failures, res>>

\* one pass of "for i in range(len(prime_list) - 2)": the break on p > LIMIT,
\* the count of the pair, and the checkpoint row; candidates holds what is
\* left of CHECKPOINTS and locals is stats_history, a rate kept as the pair
\* <<failures, total>>
DriftPass ==
    /\ script = "Drift"
    /\ pc = "loop"
    /\ i < Len(primes) - 2
    /\ LET p == primes[i + 1]
           p_next == primes[i + 2]
           residue == (p + p_next) % 6
           near == nearest_structure(p, p_next, {primes[j] : j \in DOMAIN primes})
           fail == IF near.k_is_safe THEN 0 ELSE 1
           counted ==
               IF ~near.found_k THEN counts
               ELSE IF residue = 0
               THEN [counts EXCEPT !.clean_total = @ + 1, !.clean_failures = @ + fail]
               ELSE IF residue = 2 \/ residue = 4
               THEN [counts EXCEPT !.messy_total = @ + 1, !.messy_failures = @ + fail]
               ELSE counts
       IN IF p > target_N
          THEN /\ pc' = "final"
               /\ UNCHANGED <<locals, counts, p_n, candidates, i>>
          ELSE /\ p_n' = p
               /\ counts' = counted
               /\ i' = i + 1
               /\ pc' = "loop"
               /\ IF candidates # <<>> /\ p >= candidates[1]
                  THEN /\ locals' = Append(locals,
                              [p |-> p,
                               clean |-> <<counted.clean_failures, counted.clean_total>>,
                               messy |-> <<counted.messy_failures, counted.messy_total>>])
                       /\ candidates' = Tail(candidates)
                  ELSE UNCHANGED <<locals, candidates>>
    /\ UNCHANGED <<target_N, primes, current_window, prime_file, file, script,
                   messiness_map, modulus, failures, res>>

\* the loop is over: "end_clean = stats_history[-1][0]" raises IndexError on
\* an empty history
DriftFinal ==
    /\ script = "Drift"
    /\ \/ pc = "loop" /\ i >= Len(primes) - 2
       \/ pc = "final"
    /\ pc' = IF locals = <<>> THEN "IndexError" ELSE "FINAL CONSTANTS"
    /\ UNCHANGED <<locals, target_N, primes, current_window, prime_file, counts, file,
                   script, p_n, candidates, messiness_map, modulus, i, failures, res>>

SpecDrift == InitDrift /\ [][DriftSetup \/ DriftPass \/ DriftFinal]_vars

----------------------------------------------------------------------------
(* What the claims speak of, computed from the inputs alone *)

EngineNames == {"v23", "flip", "plr", "nc"}

Called(e) == res[e] # None

Ret(e) == res[e][1]

PoolSet == {candidates[j] : j \in 1..Len(candidates)}

\* the messiness engine e looks up for candidate q
MessinessOf(e, q) ==
    DictGet(messiness_map.map,
            (p_n + q) % (IF e = "v23" THEN modulus ELSE 6),
            IF e = "flip" THEN FInf ELSE DEFAULT_HIGH)

MessyOf(e, q) == FGt(MessinessOf(e, q), MESSY_THRESHOLD)

\* score = (messiness + 1.0) * gap
ScoreOf(e, q) == FMulInt(FAddOne(MessinessOf(e, q)), q - p_n)

MessySet(e) == {q \in PoolSet : MessyOf(e, q)}

\* the anchor residue of q is a key of the table
Tabulated(e, q) ==
    (p_n + q) % (IF e = "v23" THEN modulus ELSE 6) \in DOMAIN messiness_map.map

----------------------------------------------------------------------------
(* C1: a prediction is an element of the candidate pool when the pool is *)
(* non-empty, and is None exactly when the pool is empty.                *)
C1_MemberOrNone ==
    \A e \in EngineNames :
        Called(e) =>
            IF candidates = <<>> THEN Ret(e).prediction = None
            ELSE Ret(e).prediction # None /\ Ret(e).prediction[1] \in PoolSet

\* the three predictors have answered on a pool of several candidates, the
\* streaming one by a flip away from its arithmetic winner
C1_Witness ==
    /\ script = "unit" /\ pc = "done"
    /\ Len(candidates) >= 2
    /\ Ret("plr").flipped
    /\ Ret("plr").prediction[1] \in PoolSet
    /\ Ret("v23").prediction[1] \in PoolSet
    /\ Ret("flip").prediction[1] \in PoolSet

(* C2: when no candidate's messiness exceeds MESSY_THRESHOLD the prediction *)
(* is the minimum-score candidate, and no flip is taken.                    *)
C2_NoMessyMinScore ==
    \A e \in EngineNames :
        (Called(e) /\ candidates # <<>> /\ MessySet(e) = {}) =>
            /\ ~Ret(e).flipped
            /\ Ret(e).prediction = Ret(e).v11_winner
            /\ \A q \in PoolSet : ~FLt(ScoreOf(e, q), ScoreOf(e, Ret(e).prediction[1]))

\* a pool with no messy candidate whose minimum-score candidate is not the
\* first of the pool, and one candidate sits exactly at the threshold
C2_Witness ==
    /\ script = "unit" /\ pc = "done"
    /\ Len(candidates) >= 2
    /\ \A e \in {"v23", "flip", "plr"} : MessySet(e) = {}
    /\ \E q \in PoolSet : FEq(MessinessOf("v23", q), MESSY_THRESHOLD)
    /\ Ret("v23").prediction # Some(candidates[1])
    /\ Ret("plr").prediction # Some(candidates[1])

(* C3: a prediction that differs from the baseline winner is a messy        *)
(* candidate, the closest of the messy bin, and strictly closer than the    *)
(* baseline winner; when the closest messy candidate is not strictly closer *)
(* than the baseline winner, the baseline winner is returned.               *)
C3_FlipOnlyToCloserMessy ==
    \A e \in EngineNames :
        (Called(e) /\ candidates # <<>>) =>
            LET r == Ret(e).prediction[1]
                w == Ret(e).v11_winner[1]
            IN /\ r # w =>
                    /\ MessyOf(e, r)
                    /\ \A q \in MessySet(e) : r - p_n <= q - p_n
                    /\ r - p_n < w - p_n
               /\ (MessySet(e) # {} /\ \A q \in MessySet(e) : q - p_n >= w - p_n) => r = w

\* both cases: one predictor flipped to a closer messy candidate, and on a
\* pool with a messy bin whose closest member is farther, the winner was kept
C3_Witness ==
    /\ script = "unit" /\ pc = "done"
    /\ Ret("v23").prediction # Ret("v23").v11_winner
    /\ Ret("plr").prediction # Ret("plr").v11_winner
    /\ MessySet("flip") # {}
    /\ \A q \in MessySet("flip") : q >= Ret("flip").v11_winner[1]
    /\ Ret("flip").prediction = Ret("flip").v11_winner

\* the table in force has the shape {0: clean below 20.0, 2: messy, 4: messy}
CleanMessyShape ==
    /\ DOMAIN messiness_map.map = {0, 2, 4}
    /\ ~FLt(messiness_map.map[0], Fin(0))
    /\ FLt(messiness_map.map[0], MESSY_THRESHOLD)
    /\ FGt(messiness_map.map[2], MESSY_THRESHOLD)
    /\ FGt(messiness_map.map[4], MESSY_THRESHOLD)

\* the candidates are distinct and all greater than p_n
DistinctAbove ==
    /\ \A j \in 1..Len(candidates) : candidates[j] > p_n
    /\ \A j, l \in 1..Len(candidates) : j # l => candidates[j] # candidates[l]

\* the smallest candidate
PoolMin == CHOOSE q \in PoolSet : \A x \in PoolSet : q <= x

(* C4: with a table {0: clean rate in [0, 20.0), 2 and 4: above 20.0} and   *)
(* the next 10 primes as pool, every prediction of the validation loop is   *)
(* the next prime: the loop counts no failure and never breaks; and on any  *)
(* pool of distinct integers greater than p_n the predictors return the     *)
(* smallest candidate.                                                      *)
C4_NextPrimeAlways ==
    /\ script = "NewConst" =>
          /\ failures = 0
          /\ pc \notin {"FAIL", "failures_detected"}
          /\ Called("nc") => Ret("nc").prediction = Some(all_primes[i + 1])
    /\ \A e \in EngineNames :
          (Called(e) /\ modulus = 6 /\ CleanMessyShape /\ candidates # <<>> /\ DistinctAbove)
              => Ret(e).prediction = Some(PoolMin)

\* the loop on the hardcoded table, deep in its range: the last pass flipped
\* from a farther clean winner to the next prime, and no failure is counted
C4_Witness ==
    /\ script = "NewConst" /\ pc = "loop"
    /\ messiness_map.map = MESSINESS_SCORES_NEW
    /\ i >= LIMIT - 5 /\ failures = 0
    /\ Len(candidates) = 10
    /\ Ret("nc").flipped
    /\ Ret("nc").prediction = Some(candidates[1])

\* an unordered pool above p_n on which the smallest candidate is not the first
C4_WitnessUnit ==
    /\ script = "unit" /\ pc = "done"
    /\ CleanMessyShape /\ DistinctAbove
    /\ Len(candidates) >= 2
    /\ PoolMin # candidates[1]
    /\ Ret("plr").prediction = Some(PoolMin)

C7_Scenario1 ==
    (/\ script = "unit"
     /\ p_n = 3
     /\ candidates = <<5, 7, 11, 13>>
     /\ messiness_map.map = MESSINESS_SCORES) =>
        /\ [j \in 1..4 |-> (p_n + candidates[j]) % 6] = <<2, 4, 2, 4>>
        /\ \A q \in PoolSet : MessyOf("plr", q)
        /\ \A e \in {"v23", "flip", "plr"} : Called(e) => Ret(e).prediction = Some(5)

\* the scenario, after the three predictors have answered
C7_Witness ==
    /\ script = "unit" /\ pc = "done"
    /\ p_n = 3
    /\ candidates = <<5, 7, 11, 13>>
    /\ messiness_map.map = MESSINESS_SCORES
    /\ Ret("plr").prediction = Some(5)
    /\ Ret("plr").messy_low = Some(5)

(* C8 as stated, on pools of successors (every candidate above p_n): a    *)
(* candidate whose anchor residue is not in the table has a messiness that *)
(* is not zero and not below any tabulated score, and is never the         *)
(* baseline winner when the pool holds a tabulated candidate.              *)
C8_AbsentNeverBaseline ==
    \A e \in EngineNames :
        (Called(e) /\ DistinctAbove) =>
            \A q \in PoolSet :
                ~Tabulated(e, q) =>
                    /\ ~FEq(MessinessOf(e, q), Fin(0))
                    /\ \A r \in DOMAIN messiness_map.map :
                          ~FLt(MessinessOf(e, q), messiness_map.map[r])
                    /\ Ret(e).v11_winner = Some(q) => \A x \in PoolSet : ~Tabulated(e, x)

(* C10: on the same table, p_n and pool, in the same order, the streaming *)
(* predictor and the sort-based predictor return the same candidate.      *)
C10_StreamEqualsSort ==
    (script = "unit" /\ pc = "done") => Ret("plr").prediction = Ret("v23").prediction

\* two different candidates tie on the minimum score, the later one being
\* the smaller number, and both predictors return the earlier one
C10_Witness ==
    /\ script = "unit" /\ pc = "done"
    /\ Len(candidates) >= 2
    /\ candidates[1] > candidates[2]
    /\ FEq(ScoreOf("plr", candidates[1]), ScoreOf("plr", candidates[2]))
    /\ \A q \in PoolSet : ~FLt(ScoreOf("plr", q), ScoreOf("plr", candidates[1]))
    /\ ~Ret("plr").flipped
    /\ Ret("plr").prediction = Some(candidates[1])
    /\ Ret("v23").prediction = Some(candidates[1])

----------------------------------------------------------------------------
(* C9: the table file {"0": 1.45, "2": "Infinity"} *)

Entry_0_1_45 == <<KeyTok(TRUE, 0), Tok("bare", "num", 14500)>>
QuotedInfinityFile ==
    [exists |-> TRUE, entries |-> <<Entry_0_1_45, <<KeyTok(TRUE, 2), Tok("quoted", "Infinity", 0)>>>>]
BareInfinityFile ==
    [exists |-> TRUE, entries |-> <<Entry_0_1_45, <<KeyTok(TRUE, 2), Tok("bare", "Infinity", 0)>>>>]
LoadedAsClaimed ==
    /\ pc \in {"loaded", "predicted"}
    /\ ~messiness_map.none
    /\ messiness_map.map = (0 :> Fin(14500)) @@ (2 :> FInf)

\* C9 as stated: with the value of "2" written as the quoted string
\* "Infinity", both loaders yield {0: 1.45, 2: inf}: the result is not None
\* and no exception is raised later.
C9_QuotedInfinityLoads ==
    (file = QuotedInfinityFile /\ pc # "load") => LoadedAsClaimed

\* C9, the contrast: with the value of "2" written as the bare token
\* Infinity, both loaders do yield {0: 1.45, 2: inf}: the result is not None
\* and the first prediction raises no exception.
C9_BareInfinityLoads ==
    (file = BareInfinityFile /\ pc # "load") => LoadedAsClaimed

\* the bare-token file has been loaded by load_engine_data and a prediction
\* whose pool reaches residue 2 has returned
C9_Witness ==
    /\ file = BareInfinityFile
    /\ script = "Crypto"
    /\ pc = "predicted"
    /\ \E j \in 1..Len(candidates) : (p_n + candidates[j]) % 6 = 2
    /\ res.flip # None

----------------------------------------------------------------------------
(* C11 - C13: the RSA breakers and their generators *)

\* n is a prime number
IsPrimeNumber(n) == n > 1 /\ \A d \in 2..(n - 1) : n % d # 0

\* the least prime factor of n (n > 1)
LeastPrimeFactor(n) == CHOOSE d \in 2..n : n % d = 0 /\ \A e \in 2..(d - 1) : n % e # 0

RSAReturned == pc \in {"returned", "VERIFIED", "Mismatch"}

\* C11 as stated: for every target N, break_rsa_adaptive(N) and
\* break_rsa_standard(N) return the same factor (the same divisor, or both
\* None).
C11_SameFactor ==
    (script = "RSA_Adaptive" /\ RSAReturned) => counts.std_factor = counts.plr_factor

\* C11, the part that holds: the two factors agree for every target but 3.
C11_SameFactorBut3 ==
    (script = "RSA_Adaptive" /\ RSAReturned /\ target_N # 3)
        => counts.std_factor = counts.plr_factor

\* C12 as stated: break_rsa_key(N) returns the least prime factor of a
\* composite N (and so N // f with it), and None for a prime N.
C12_LeastFactorOrNone ==
    (script = "RSA_Breaker" /\ RSAReturned /\ target_N > 1)
        => IF IsPrimeNumber(target_N)
           THEN counts.plr_factor = None
           ELSE counts.plr_factor = Some(LeastPrimeFactor(target_N))

\* C12, the part that holds: the same for every target above 3.
C12_LeastFactorOrNoneAbove3 ==
    (script = "RSA_Breaker" /\ RSAReturned /\ target_N > 3)
        => IF IsPrimeNumber(target_N)
           THEN counts.plr_factor = None
           ELSE counts.plr_factor = Some(LeastPrimeFactor(target_N))

\* C13: while either generator runs, its list 'primes' is exactly the primes
\* up to p_n in increasing order: every yielded value is prime, the values
\* increase strictly and no prime is skipped.
C13_PrimesListExact ==
    (script \in {"RSA_Breaker", "RSA_Adaptive"} /\ pc \in {"generate", "predict", "yielded"})
        => /\ primes = Ascending({n \in 2..p_n : IsPrimeNumber(n)})
           /\ primes[Len(primes)] = p_n

\* the generator of break_rsa_key has just yielded its second prime, 7, chosen
\* from a pool that still holds composites (49, 77, 91)
C13_Witness ==
    /\ script = "RSA_Breaker"
    /\ pc = "yielded"
    /\ Len(primes) >= 4
    /\ \E j \in 1..Len(candidates) : ~IsPrimeNumber(candidates[j])

\* the filter in the words of the claim: a gap that is a multiple of 6 requires
\* the anchor residue 2 or 4, any other gap requires the anchor residue 0
PhaseAdmits(pn, q) ==
    IF (q - pn) % 6 = 0 THEN (pn + q) % 6 \in {2, 4} ELSE (pn + q) % 6 = 0

\* the numbers that may stand in a pool next to p_n
NearNumbers(pn) == (pn + 1)..(pn + 8)

\* C14: for every prime p_n > 3 of the test and the pool of the primes that
\* follow it, get_v26_prediction returns the immediately next prime: the
\* filter does not block the nearest prime candidate. On a pool of any two
\* numbers the function returns None only if the filter blocks both, and the
\* nearest admitted one otherwise.
C14_NextPrimeAlways ==
    (script = "v26" /\ locals # <<>>)
        => /\ locals.prediction = Some(locals.true_next)
           /\ failures = 0
           /\ PhaseAdmits(p_n, locals.true_next)
           /\ \A q1, q2 \in NearNumbers(p_n) :
                  LET admitted == {q \in {q1, q2} : PhaseAdmits(p_n, q)}
                      prediction == get_v26_prediction(p_n, <<q1, q2>>)
                  IN IF admitted = {} THEN prediction = None
                     ELSE /\ prediction # None
                          /\ prediction[1] \in admitted
                          /\ \A q \in admitted : prediction[1] <= q

\* the test has passed a prime with a pool of ten primes, the nearest one
\* predicted and a farther one at a gap that is a multiple of 6, and there are
\* numbers near p_n that the filter blocks
C14_Witness ==
    /\ script = "v26"
    /\ locals # <<>>
    /\ p_n > 3
    /\ Len(candidates) = 10
    /\ locals.prediction = Some(candidates[1])
    /\ \E j \in 2..10 : (candidates[j] - p_n) % 6 = 0
    /\ \E q \in NearNumbers(p_n) : ~PhaseAdmits(p_n, q)

\* the prime that follows p, looked for among the next 'width' numbers
NextPrimeWithin(p, width) ==
    LET found == {q \in (p + 1)..(p + width) : IsPrimeNumber(q)}
    IN IF found = {} THEN None ELSE Some(CHOOSE q \in found : \A r \in found : q <= r)

Predicted == pc \in {"predicted", "SUCCESS", "FAILURE"}

\* C15 as stated: for every prime p_n >= 13, get_v23_prediction_O1(p_n) returns
\* the true next prime after p_n, never a composite that survives the filter.
C15_O1NextPrime ==
    (script = "O1" /\ Predicted /\ p_n >= 13 /\ IsPrimeNumber(p_n))
        => locals.predicted_prime = PyStr("num", NextPrimeWithin(p_n, POOL_WIDTH)[1])

\* C16 as stated: for every prime p_n >= 5 with a prime in (p_n, p_n + 210],
\* get_v23_prediction(p_n) of the V2 generator returns the next prime.
C16_V2NextPrime ==
    (script = "V2" /\ Predicted /\ NextPrimeWithin(p_n, POOL_WIDTH) # None)
        => locals.predicted_prime = PyStr("num", NextPrimeWithin(p_n, POOL_WIDTH)[1])

\* C17 as stated: in both predictors, when the candidate list is non-empty and
\* no messy candidate was found (g_messy_low is still -1), the prediction is
\* the v16 winner, an element of the candidate list, never the placeholder -1.
C17_NoMessyNoFlip ==
    (script \in {"V2", "O1"} /\ Predicted
        /\ locals.l.candidates # {} /\ locals.l.g_messy_low = -1)
        => /\ locals.predicted_prime = PyStr("num", locals.l.p_v16_winner)
           /\ locals.predicted_prime.v \in locals.l.candidates
           /\ locals.predicted_prime.v # -1

\* C17, the O1 predictor alone: its gate tests g_messy_low != -1.
C17_NoMessyNoFlipO1 ==
    (script = "O1" /\ Predicted
        /\ locals.l.candidates # {} /\ locals.l.g_messy_low = -1)
        => /\ locals.predicted_prime = PyStr("num", locals.l.p_v16_winner)
           /\ locals.predicted_prime.v \in locals.l.candidates

\* the runs of run_sniper_test are over
SniperDone == pc \in {"verdict", "ZeroDivisionError", "CRITICAL FAILURE", "SUCCESS"}

\* C18 as stated: for every sieve limit and twin target the sniper run finds
\* exactly as many twin prime pairs as the brute-force run, and the
\* '[CRITICAL FAILURE]' branch is never taken.
C18_SameTwinCount ==
    (script = "Sniper" /\ SniperDone)
        => /\ counts.found_twins_bf = counts.found_twins_plr
           /\ pc # "CRITICAL FAILURE"

\* C18, what holds: the sniper is behind by at most the pair (3, 5), which it
\* skips because 3 % 6 = 3.
C18_BehindByAtMostOne ==
    (script = "Sniper" /\ SniperDone)
        => /\ counts.found_twins_plr <= counts.found_twins_bf
           /\ counts.found_twins_bf <= counts.found_twins_plr + 1

FileScripts == {"TPC", "RNG", "Mod_Scaling", "Triplets", "v26"}

\* the lines of the file that the script parses: all of them, or the first
\* ones up to its buffer
LinesRead ==
    CASE script \in {"TPC", "RNG"} -> Len(prime_file.lines)
      [] script = "Mod_Scaling" -> Min2(Len(prime_file.lines), TEST_LIMIT + 50)
      [] script = "Triplets" -> Min2(Len(prime_file.lines), PRIMES_TO_TEST + 500)
      [] script = "v26" -> Min2(Len(prime_file.lines), TEST_LIMIT_v26 + 50)

Malformed == prime_file.exists /\ prime_file.bad \in 1..LinesRead

\* the list is read whole and is shorter than the range of the main loop
\* needs: the required count of PLR_TPC and PLR_RNG_Validation, and one more
\* than the number of passes in the other scripts
ShortList ==
    /\ prime_file.exists
    /\ ~Malformed
    /\ LinesRead < (CASE script \in {"TPC", "RNG"} -> RequiredCount(script)
                      [] script = "Mod_Scaling" -> TEST_LIMIT + 1
                      [] script = "Triplets" -> PRIMES_TO_TEST + 1
                      [] script = "v26" -> TEST_LIMIT_v26 + 1)

\* the table file of the script could not be loaded
NoTable == script \in {"TPC", "RNG", "Mod_Scaling"} /\ messiness_map.none

\* no pass of the main loop has run and none can
StoppedBeforeLoop == pc = "returned" /\ i = 0 /\ p_n = 0

\* C19 as stated: when the loaded list is shorter than the count the test
\* range requires, every script stops with a fatal report before its main
\* loop: nothing is computed on a partial range and no index goes past the
\* end of the list.
C19_ShortListFatal ==
    (script \in FileScripts /\ ShortList /\ pc # "load") => StoppedBeforeLoop

\* C19 for the two scripts that compare the loaded count with the required
\* count, PLR_TPC and PLR_RNG_Validation.
C19_ShortListFatalChecked ==
    (script \in {"TPC", "RNG"} /\ ShortList /\ pc # "load") => StoppedBeforeLoop

\* C20 as stated: when the input file is missing or holds a malformed entry,
\* the script reports a fatal condition and returns from its run function,
\* with no uncaught exception and no pass of the analysis loop.
C20_BadFileFatal ==
    (script \in FileScripts /\ (~prime_file.exists \/ Malformed \/ NoTable)
        /\ pc # "load")
        => (pc \in {"returned", "report"} /\ i = 0 /\ p_n = 0)

\* C20 for the scripts whose loader catches the parse error:
\* PLR_RNG_Validation, PLR_Mod_Scaling_Test and the v26 test.
C20_BadFileFatalCaught ==
    (script \in {"RNG", "Mod_Scaling", "v26"}
        /\ (~prime_file.exists \/ Malformed \/ NoTable) /\ pc # "load")
        => (pc \in {"returned", "report"} /\ i = 0 /\ p_n = 0)

\* list holds exactly the primes of 0..top, in strictly increasing order
ExactlyThePrimes(list, top) ==
    /\ {list[j] : j \in DOMAIN list} = {n \in 0..top : IsPrimeNumber(n)}
    /\ \A j \in DOMAIN list : j > 1 => list[j - 1] < list[j]

C22_SexyPairsCounted ==
    (script = "Triplets" /\ pc \in {"loop", "report", "IndexError"})
        => counts.sexy_con + counts.triplet_a + counts.triplet_b
              = Cardinality({j \in 1..counts.total : IsPrimeNumber(primes[j + 1] - 6)})

\* the analysis has run over all PRIMES_TO_TEST gaps and has counted pairs of
\* each of the three kinds
C22_Witness ==
    /\ script = "Triplets"
    /\ pc = "report"
    /\ counts.total = PRIMES_TO_TEST
    /\ counts.sexy_con > 0
    /\ counts.triplet_a > 1
    /\ counts.triplet_b > 1

\* BASE_WINDOW * 2^k for k = 0..9
WindowSizes == {BASE_WINDOW, BASE_WINDOW * 2, BASE_WINDOW * 4, BASE_WINDOW * 8,
                BASE_WINDOW * 16, BASE_WINDOW * 32, BASE_WINDOW * 64,
                BASE_WINDOW * 128, BASE_WINDOW * 256, BASE_WINDOW * 512}

\* C23: in generate_primes_adaptive_plr the window of every candidate search
\* is BASE_WINDOW * 2^k and at most MAX_WINDOW; a search without candidate
\* doubles the window, leaves p_n and primes unchanged and yields nothing;
\* after every yield the window is BASE_WINDOW again.
C23_AdaptiveWindow ==
    /\ []((script = "RSA_Adaptive" /\ pc \in {"generate", "predict"})
             => (current_window \in WindowSizes /\ current_window <= MAX_WINDOW))
    /\ []((script = "RSA_Adaptive" /\ pc = "yielded") => current_window = BASE_WINDOW)
    /\ [][(script = "RSA_Adaptive" /\ pc = "generate" /\ p_n * p_n <= target_N
              /\ pc' # "predict")
             => (/\ current_window' = 2 * current_window
                 /\ p_n' = p_n
                 /\ primes' = primes
                 /\ pc' \in {"generate", "returned"})]_vars

\* the search from 1327 found nothing within 30 and runs again within 60
C23_Witness ==
    /\ script = "RSA_Adaptive"
    /\ pc = "generate"
    /\ p_n = 1327
    /\ current_window = 2 * BASE_WINDOW
    /\ candidates = <<>>

\* the generator has stopped on p_n * p_n > limit_n and no factor was found
Exhausted == pc \in {"returned", "VERIFIED", "Mismatch"} /\ counts.plr_factor = None
                /\ p_n > 0 /\ p_n * p_n > target_N

\* C24: generate_primes_adaptive_plr terminates for every limit_n: each pass
\* of its loop yields a strictly larger p_n or doubles the window, and when
\* it stops on p_n * p_n > limit_n it has yielded every prime q with
\* 5 <= q <= sqrt(limit_n).
C24_AdaptiveTerminates ==
    /\ (script = "RSA_Adaptive") ~> (pc \in {"VERIFIED", "Mismatch"})
    /\ []((script = "RSA_Adaptive" /\ Exhausted)
             => \A q \in 5..p_n :
                    (q * q <= target_N /\ is_prime(q))
                        => \E j \in DOMAIN primes : primes[j] = q)
    /\ [][(script = "RSA_Adaptive" /\ pc \in {"generate", "predict"})
             => \/ pc' = "yielded" /\ p_n' > p_n
                \/ pc' = "generate" /\ current_window' = 2 * current_window /\ p_n' = p_n
                \/ pc' = "predict" /\ p_n' = p_n /\ current_window' = current_window
                \/ pc' = "returned"]_vars

\* the generator ran past the gap after 1327 and stopped on p_n * p_n > limit_n
C24_Witness ==
    /\ script = "RSA_Adaptive"
    /\ Exhausted
    /\ target_N = 1852327
    /\ p_n = 1367

\* the least index of the non-empty set S of indices
FirstOf(S) == CHOOSE j \in S : \A l \in S : j <= l

\* the pool positions whose score no position undercuts
MinScoreAt(e) ==
    {j \in DOMAIN candidates :
        \A l \in DOMAIN candidates :
            ~FLt(ScoreOf(e, candidates[l]), ScoreOf(e, candidates[j]))}

\* the pool positions of the messy candidates
MessyAt(e) == {j \in DOMAIN candidates : MessyOf(e, candidates[j])}

\* the messy positions whose gap no messy position undercuts
ClosestMessyAt(e) ==
    {j \in MessyAt(e) : \A l \in MessyAt(e) : candidates[l] >= candidates[j]}

\* C25: among the candidates that share the minimum score the baseline winner
\* is the first in pool order, and among the messy candidates that share the
\* smallest gap the closest messy member is the first in pool order
\* (get_v23_prediction and the streaming get_plr_prediction).
C25_TiesFirstInPool ==
    \A e \in {"v23", "plr"} :
        (Called(e) /\ candidates # <<>>) =>
            /\ MinScoreAt(e) # {}
            /\ Ret(e).v11_winner = Some(candidates[FirstOf(MinScoreAt(e))])
            /\ MessyAt(e) # {} =>
                   Ret(e).messy_low = Some(candidates[FirstOf(ClosestMessyAt(e))])

\* two different candidates share the minimum score, the later one is messy,
\* closer and repeated in the pool; both predictors have been called
C25_Witness ==
    /\ script = "unit" /\ pc = "done"
    /\ Len(candidates) = 3
    /\ candidates[1] # candidates[2]
    /\ candidates[2] = candidates[3]
    /\ MinScoreAt("plr") = {1, 2, 3}
    /\ MinScoreAt("v23") = {1, 2, 3}
    /\ ClosestMessyAt("plr") = {2, 3}
    /\ Ret("plr").v11_winner = Some(candidates[1])
    /\ Ret("v23").v11_winner = Some(candidates[1])
    /\ Ret("v23").messy_low = Some(candidates[2])

ModuleTableScripts == {"Crypto", "MemOpt", "TPC", "RNG"}

\* C27: in every script that loads the table into the module-level variable
\* the predictor is called only after the load has succeeded: a failed load
\* makes the run function return before the first prediction, and no
\* prediction is computed while the table is None.
C27_PredictAfterLoad ==
    (script \in ModuleTableScripts /\ pc # "load" /\ messiness_map.none)
        => /\ pc \in {"not_loaded", "returned"}
           /\ res = NoResults
           /\ candidates = <<>>

\* run_gap_density_analysis has loaded its table and made a prediction
C27_Witness ==
    /\ script = "TPC"
    /\ pc = "loop"
    /\ ~messiness_map.none
    /\ res.flip # None

\* C28 as stated: for every n the wheel search returns the same prime as the
\* brute-force search, the smallest prime in (n, n + 210] or None; every
\* candidate the wheel loop tests is coprime to 30.
C28_WheelEqualsControl ==
    (script = "Wheel" /\ pc = "done") =>
        /\ locals.wheel = locals.control
        /\ \A j \in DOMAIN candidates :
              candidates[j] % 2 # 0 /\ candidates[j] % 3 # 0 /\ candidates[j] % 5 # 0

\* C29 as stated: every value of CHECKPOINTS, the last one (= LIMIT)
\* included, produces exactly one report row, in increasing order, before
\* the loop ends; the final constants are the rates accumulated over all
\* primes up to LIMIT, and stats_history is not empty when it is read.
C29_EveryCheckpointReported ==
    (script = "Drift" /\ pc = "FINAL CONSTANTS") =>
        /\ candidates = <<>>
        /\ Len(locals) = Len(CHECKPOINT_UNITS)
        /\ \A j \in 1..(Len(locals) - 1) : locals[j].p < locals[j + 1].p
        /\ locals[Len(locals)].clean = <<counts.clean_failures, counts.clean_total>>
        /\ locals[Len(locals)].messy = <<counts.messy_failures, counts.messy_total>>

\* C29, what the run does: every checkpoint but the last produces one row,
\* in increasing order, the checkpoint LIMIT is still pending when the loop
\* ends, and stats_history is not empty when it is read.
C29_AllButLastReported ==
    (script = "Drift" /\ pc \notin {"setup", "loop"}) =>
        /\ pc \in {"final", "FINAL CONSTANTS"}
        /\ candidates = <<target_N>>
        /\ Len(locals) = Len(CHECKPOINT_UNITS) - 1
        /\ \A j \in 1..(Len(locals) - 1) : locals[j].p < locals[j + 1].p

\* the loader of the gap density or RNG script has accepted the list
LoaderAccepts ==
    /\ script \in {"TPC", "RNG"}
    /\ pc # "load"
    /\ ~messiness_map.none
    /\ prime_file.exists
    /\ ~raises_ValueError(prime_file, Len(prime_file.lines))

\* C30 as stated: whenever the loader accepts the list (length >= test count
\* + START_INDEX + NUM_CANDIDATES_TO_CHECK + 2) the run function's own range
\* check passes too and the analysis loop runs; a list of exactly the
\* required length is not rejected.
C30_GuardsAgree ==
    (LoaderAccepts /\ Len(prime_file.lines) >= RequiredCount(script))
        => (pc # "returned" /\ primes = prime_file.lines)

\* C30, what the run does: the range check passes for every accepted list
\* that is longer than the required length by at least one.
C30_GuardsAgreeAboveRequired ==
    (LoaderAccepts /\ Len(prime_file.lines) > RequiredCount(script))
        => (pc # "returned" /\ primes = prime_file.lines)

====
